---- MODULE Spec2Model ----
(***************************************************************************)
(* Module registry (libs/modkit/src/registry.rs), host runtime phase       *)
(* engine (libs/modkit/src/runtime/host_runtime.rs, runner.rs), gRPC hub   *)
(* (modules/grpc_hub/src/lib.rs, libs/modkit/src/runtime/                  *)
(* grpc_installers.rs) and instance directory (libs/modkit/src/runtime/    *)
(* module_manager.rs), operation builder and REST host (libs/modkit/src/   *)
(* api/operation_builder.rs, modules/api_ingress/src/lib.rs, middleware/   *)
(* rate_limit.rs) and local process backend (libs/modkit/src/runtime/      *)
(* backends/local.rs).                                                     *)
(*                                                                         *)
(* Spec          : registrators -> discover_and_build -> run_full_cycle    *)
(* SpecBuild     : registrators with richer dependency lists ->            *)
(*                 discover_and_build (no lifecycle)                       *)
(* SpecHub       : a registry of gRPC modules, run_full_cycle and the      *)
(*                 hub's serve / run_with_installers                       *)
(* SpecStore     : set and take calls on one GrpcInstallerStore            *)
(* SpecLiveness  : ModuleManager heartbeats and evict_stale over time      *)
(* SpecDraining  : ModuleManager instances set Draining, and evict_stale   *)
(* SpecDirectory : ModuleManager register_instance and deregister by       *)
(*                 concurrent callers                                      *)
(* SpecPick      : ModuleManager round-robin selection                     *)
(* SpecApi       : OperationBuilder, ApiIngress::register_operation, the   *)
(*                 middleware stack and requests through it                *)
(* SpecOpenApi   : ApiIngress::register_operation called with any specs     *)
(* SpecLimiter   : RateLimiterMap, TokenBucket and the in-flight semaphore;  *)
(*                 SpecLimiterFair adds that a running request completes   *)
(* SpecShutdown  : run with each of the ShutdownOptions, through the stop  *)
(*                 phase; SpecShutdownFair adds the fairness of the        *)
(*                 runtime's scheduling                                    *)
(* SpecHubInit   : GrpcHub::init on the listen_addr of its config          *)
(* SpecBackend   : LocalProcessBackend spawn / stop / list                 *)
(* SpecServe     : ApiIngress::serve started by its lifecycle wrapper      *)
(* SpecSync      : the locks ModuleManager calls of concurrent threads     *)
(*                 take; SpecSyncFair adds that every thread is scheduled  *)
(***************************************************************************)
EXTENDS Integers, Sequences, FiniteSets, TLC

(* ------------------------------ bounds --------------------------------- *)

\* registrator invocations per discovery
MaxRegs == 3
\* length of a module's deps slice in SpecBuild
MaxDeps == 2
\* length of a module's deps slice in Spec
MaxHostDeps == 1

\* installers one get_grpc_services call returns
MaxInstallers == 1

\* invocations of the hub's serve / run_with_installers in one process
MaxServes == 2

\* installers a caller passes to run_with_installers directly
MaxHubInstallers == 2

\* instances the directory holds at a time
MaxInstances == 2

\* instances the directory holds at a time while the clock runs
MaxLive == 1

\* heartbeat policies: hb_ttl in 1..MaxTtl, hb_grace in 0..MaxGrace
MaxTtl == 1
MaxGrace == 1

\* the clock stops at MaxTime
MaxTime == MaxTtl + MaxGrace

\* recorded round-robin picks for one key between two changes of the
\* directory: one turn for each candidate
MaxPicks == MaxInstances

\* module names known to the process
Names == {"a", "b", "c"}

\* Option::None for Option<&'static str>
NoName == "-"

\* a total order on names, used only to enumerate deps slices once
NameRank(n) == CASE n = "a" -> 1 [] n = "b" -> 2 [] n = "c" -> 3 [] OTHER -> 4

\* deps slices: strictly ascending sequences of names, at most k long
DepLists(k) ==
  UNION { { s \in [1..l -> Names] :
              \A i \in 1..l : \A j \in 1..l : i < j => NameRank(s[i]) < NameRank(s[j]) }
          : l \in 0..k }

(* --------------------------- sequence helpers -------------------------- *)

Range(s) == { s[i] : i \in 1..Len(s) }

\* every iteration order a HashMap / HashSet over the key set S can produce
Perms(S) ==
  { p \in [1..Cardinality(S) -> S] : \A x \in S : \E i \in 1..Cardinality(S) : p[i] = x }

\* slice.iter().position(|&n| n == x), 0 for None
Position(s, x) ==
  IF \E i \in 1..Len(s) : s[i] = x
    THEN CHOOSE i \in 1..Len(s) : s[i] = x /\ \A j \in 1..(i - 1) : s[j] # x
    ELSE 0

\* s.iter().filter(|e| P(e)).collect()
RECURSIVE FilterSeq(_, _)
FilterSeq(s, keep) ==
  IF s = <<>> THEN <<>>
  ELSE IF Head(s) \in keep THEN <<Head(s)>> \o FilterSeq(Tail(s), keep)
       ELSE FilterSeq(Tail(s), keep)

\* s.iter().rev()
RECURSIVE Reverse(_)
Reverse(s) == IF s = <<>> THEN <<>> ELSE Append(Reverse(Tail(s)), Head(s))

(* ---------------------------- RegistryBuilder -------------------------- *)

\* RegistryBuilder::default()
EmptyBuilder ==
  [ core           |-> <<>>,     \* HashMap name -> module object
    deps           |-> <<>>,     \* HashMap name -> deps slice
    rest           |-> {},
    rest_host      |-> NoName,
    db             |-> {},
    stateful       |-> {},
    system_modules |-> {},
    grpc_hub       |-> NoName,
    grpc_services  |-> {},
    errors         |-> <<>> ]

register_core_with_meta(b, name, deps, m) ==
  IF name \in DOMAIN b.core
    THEN [b EXCEPT !.errors = Append(@, <<"already registered", name>>)]
    ELSE [b EXCEPT !.core = (name :> m) @@ @, !.deps = (name :> deps) @@ @]

register_rest_with_meta(b, name) == [b EXCEPT !.rest = @ \cup {name}]

\* a second rest host silently replaces the first
register_rest_host_with_meta_overwrite(b, name) == [b EXCEPT !.rest_host = name]

register_rest_host_with_meta(b, name) ==
  IF b.rest_host # NoName
    THEN [b EXCEPT !.errors = Append(@, <<"multiple rest hosts", b.rest_host, name>>)]
    ELSE [b EXCEPT !.rest_host = name]

register_db_with_meta(b, name) == [b EXCEPT !.db = @ \cup {name}]

register_stateful_with_meta(b, name) == [b EXCEPT !.stateful = @ \cup {name}]

register_system_with_meta(b, name) == [b EXCEPT !.system_modules = @ \cup {name}]

register_grpc_hub_with_meta(b, name) ==
  IF b.grpc_hub # NoName
    THEN [b EXCEPT !.errors = Append(@, <<"multiple grpc hubs", b.grpc_hub, name>>)]
    ELSE [b EXCEPT !.grpc_hub = name]

register_grpc_service_with_meta(b, name) == [b EXCEPT !.grpc_services = @ \cup {name}]

(* --------------------------- cycle detection --------------------------- *)

\* adj[v] for every index v: edge dep -> module, pushed while iterating the
\* deps map in the order depsIter (registry.rs 317-331)
RECURSIVE Dependents(_, _, _)
Dependents(b, d, depsIter) ==
  IF depsIter = <<>> THEN <<>>
  ELSE LET n   == Head(depsIter)
           occ == FilterSeq(b.deps[n], {d})
       IN [k \in 1..Len(occ) |-> n] \o Dependents(b, d, Tail(depsIter))

\* edges pushed the wrong way round: adj[u].push(v)
AdjOf_reversed(b, names, depsIter) ==
  [ u \in 1..Len(names) |->
      [ k \in 1..Len(b.deps[names[u]]) |-> Position(names, b.deps[names[u]][k]) ] ]

AdjOf(b, names, depsIter) ==
  [ v \in 1..Len(names) |->
      LET dependents == Dependents(b, names[v], depsIter)
      IN  [ k \in 1..Len(dependents) |-> Position(names, dependents[k]) ] ]

NoCycle == <<>>

RECURSIVE dfs(_, _, _, _, _)
RECURSIVE dfsNeighbors(_, _, _, _, _, _)

RECURSIVE dfsNeighbors_whole_path(_, _, _, _, _, _)
\* the reported cycle is the whole DFS path instead of path[cycle_start..]
dfsNeighbors_whole_path(node, k, names, adj, colors, path) ==
  IF k > Len(adj[node])
    THEN [colors |-> colors, path |-> path, cycle |-> NoCycle]
    ELSE LET neighbor == adj[node][k] IN
      CASE colors[neighbor] = "Gray" ->
             [colors |-> colors, path |-> path,
              cycle  |-> Append([i \in 1..Len(path) |-> names[path[i]]], names[neighbor])]
        [] colors[neighbor] = "White" ->
             LET r == dfs(neighbor, names, adj, colors, path) IN
             IF r.cycle # NoCycle THEN r
             ELSE dfsNeighbors_whole_path(node, k + 1, names, adj, r.colors, r.path)
        [] OTHER -> dfsNeighbors_whole_path(node, k + 1, names, adj, colors, path)

\* the `for &neighbor in &adj[node]` loop of dfs, from neighbour k on
dfsNeighbors(node, k, names, adj, colors, path) ==
  IF k > Len(adj[node])
    THEN [colors |-> colors, path |-> path, cycle |-> NoCycle]
    ELSE LET neighbor == adj[node][k] IN
      CASE colors[neighbor] = "Gray" ->
             LET cycle_start == Position(path, neighbor) IN
             IF cycle_start # 0
               THEN LET cycle_indices == SubSeq(path, cycle_start, Len(path))
                    IN [colors |-> colors, path |-> path,
                        cycle  |-> Append([i \in 1..Len(cycle_indices) |-> names[cycle_indices[i]]],
                                          names[neighbor])]
               ELSE dfsNeighbors(node, k + 1, names, adj, colors, path)
        [] colors[neighbor] = "White" ->
             LET r == dfs(neighbor, names, adj, colors, path) IN
             IF r.cycle # NoCycle THEN r
             ELSE dfsNeighbors(node, k + 1, names, adj, r.colors, r.path)
        [] OTHER -> dfsNeighbors(node, k + 1, names, adj, colors, path)

dfs(node, names, adj, colors, path) ==
  LET r == dfsNeighbors(node, 1, names, adj,
                        [colors EXCEPT ![node] = "Gray"], Append(path, node))
  IN IF r.cycle # NoCycle THEN r
     ELSE [colors |-> [r.colors EXCEPT ![node] = "Black"],
           path   |-> SubSeq(r.path, 1, Len(r.path) - 1),
           cycle  |-> NoCycle]

RECURSIVE detectFrom(_, _, _, _, _)
\* the `for i in 0..names.len()` loop of detect_cycle_with_path
detectFrom(i, names, adj, colors, path) ==
  IF i > Len(names) THEN NoCycle
  ELSE IF colors[i] = "White"
         THEN LET r == dfs(i, names, adj, colors, path) IN
              IF r.cycle # NoCycle THEN r.cycle
              ELSE detectFrom(i + 1, names, adj, r.colors, r.path)
         ELSE detectFrom(i + 1, names, adj, colors, path)

detect_cycle_with_path(names, adj) ==
  detectFrom(1, names, adj, [i \in 1..Len(names) |-> "White"], <<>>)

(* ------------------------------ Kahn ----------------------------------- *)

RECURSIVE SumSeq(_)
SumSeq(s) == IF s = <<>> THEN 0 ELSE Head(s) + SumSeq(Tail(s))

\* indeg[target] += 1 for every occurrence of target in an adjacency list
InDegrees(adj, n) ==
  [ t \in 1..n |->
      SumSeq([ v \in 1..n |-> Cardinality({ k \in 1..Len(adj[v]) : adj[v][k] = t }) ]) ]

RECURSIVE relax(_, _, _, _)
\* the `for &w in &adj[u]` loop: decrement, push_back on zero
relax(ws, k, indeg, q) ==
  IF k > Len(ws) THEN [indeg |-> indeg, q |-> q]
  ELSE LET w  == ws[k]
           d  == indeg[w] - 1
       IN relax(ws, k + 1, [indeg EXCEPT ![w] = d], IF d = 0 THEN Append(q, w) ELSE q)

RECURSIVE kahn(_, _, _, _)
\* the `while let Some(u) = q.pop_front()` loop
kahn(q, indeg, order, adj) ==
  IF q = <<>> THEN order
  ELSE LET u == Head(q)
           r == relax(adj[u], 1, indeg, Tail(q))
       IN kahn(r.q, r.indeg, Append(order, u), adj)

TopoOrder(names, adj) ==
  LET indeg == InDegrees(adj, Len(names))
      q0    == FilterSeq([i \in 1..Len(names) |-> i], { i \in 1..Len(names) : indeg[i] = 0 })
  IN kahn(q0, indeg, <<>>, adj)

(* --------------------------- build_topo_sorted ------------------------- *)

\* a RegistryError (or anyhow error) value: kind, offending module, detail
\* (cycle path, collected messages, or the unknown dependency)
NoErr == [kind |-> "none", module |-> NoName, detail |-> <<>>]
Err(kind, module, detail) == [kind |-> kind, module |-> module, detail |-> detail]

\* step 1 of build_topo_sorted: the capability maps are checked in the order
\* rest, rest_host, db, stateful, grpc_hub, grpc_services; the name reported
\* is the first unknown key the map iteration meets, so any unknown key of
\* the first offending map can be the one reported
UnknownCapability(b) ==
  LET known     == DOMAIN b.core
      opt(x)    == IF x = NoName THEN {} ELSE {x}
      groups    == << b.rest, opt(b.rest_host), b.db, b.stateful, opt(b.grpc_hub), b.grpc_services >>
      bad       == { g \in 1..6 : groups[g] \ known # {} }
  IN IF bad = {} THEN {}
     ELSE groups[CHOOSE g \in bad : \A h \in bad : g <= h] \ known

\* the first (module, dep) with an unregistered dep met while building adj
RECURSIVE FirstUnknownDep(_, _)
FirstUnknownDep(b, depsIter) ==
  IF depsIter = <<>> THEN <<>>
  ELSE LET n       == Head(depsIter)
           unknown == FilterSeq(b.deps[n], Names \ DOMAIN b.core)
       IN IF unknown # <<>> THEN <<n, Head(unknown)>>
          ELSE FirstUnknownDep(b, Tail(depsIter))

\* ModuleEntry built in step 4
EntryOf(b, name) ==
  [ name         |-> name,
    deps         |-> b.deps[name],
    core         |-> b.core[name],
    rest         |-> name \in b.rest,
    rest_host    |-> b.rest_host = name,
    db           |-> name \in b.db,
    stateful     |-> name \in b.stateful,
    is_system    |-> name \in b.system_modules,
    is_grpc_hub  |-> b.grpc_hub = name,
    grpc_service |-> name \in b.grpc_services ]

Rejected(e) == [ok |-> FALSE, err |-> e, modules |-> <<>>, grpc_hub |-> NoName, grpc_services |-> <<>>]

\* names    : iteration order of self.core.keys()
\* depsIter : iteration order of self.deps.iter()
\* svcIter  : iteration order of self.grpc_services.iter()
\* unk      : the unknown capability key met first (NoName when there is none)
build_topo_sorted(b, names, depsIter, svcIter, unk) ==
  IF b.rest_host # NoName /\ b.rest_host \notin DOMAIN b.core
    THEN Rejected(Err("UnknownModule", b.rest_host, <<>>))
  ELSE IF b.errors # <<>>
    THEN Rejected(Err("InvalidRegistryConfiguration", NoName, b.errors))
  ELSE IF unk # NoName
    THEN Rejected(Err("UnknownModule", unk, <<>>))
  ELSE IF FirstUnknownDep(b, depsIter) # <<>>
    THEN Rejected(Err("UnknownDependency", FirstUnknownDep(b, depsIter)[1],
                      <<FirstUnknownDep(b, depsIter)[2]>>))
  ELSE
    LET adj        == AdjOf(b, names, depsIter)
        cycle_path == detect_cycle_with_path(names, adj)
    IN IF cycle_path # NoCycle
         THEN Rejected(Err("CycleDetected", NoName, cycle_path))
         ELSE LET order == TopoOrder(names, adj)
              IN [ ok            |-> TRUE,
                   err           |-> NoErr,
                   modules       |-> [i \in 1..Len(order) |-> EntryOf(b, names[order[i]])],
                   grpc_hub      |-> b.grpc_hub,
                   grpc_services |-> svcIter ]

\* system modules are not moved to the front
modules_by_system_priority_topo_only(reg) == reg.modules

\* ModuleRegistry::modules_by_system_priority
modules_by_system_priority(reg) ==
  LET all == reg.modules
      sys == { i \in 1..Len(all) : all[i].is_system }
      pick(S) == FilterSeq([i \in 1..Len(all) |-> i], S)
      system_mods     == [k \in 1..Len(pick(sys)) |-> all[pick(sys)[k]]]
      non_system_mods == [k \in 1..Len(pick((1..Len(all)) \ sys)) |-> all[pick((1..Len(all)) \ sys)[k]]]
  IN system_mods \o non_system_mods

(* ------------------------------- state --------------------------------- *)

VARIABLES
  builder,        \* the RegistryBuilder the registrators fill
  nregs,          \* registrators run so far
  pc,             \* position of runner::run / HostRuntime::run_full_cycle
  registry,       \* the ModuleRegistry (result of build_topo_sorted)
  err,            \* the error run returns, NoErr while none
  idx,            \* loop position inside the current phase
  inflight,       \* hooks invoked and not yet returned
  log,            \* hook invocations and returns, in order
  cancel,         \* the CancellationToken is cancelled
  all_installers, \* run_grpc_phase: service names collected so far
  store,          \* GrpcInstallerStore.inner
  serve_tasks,    \* GrpcHub: the invocations of serve / run_with_installers
  takes,          \* GrpcInstallerStore::take calls made so far
  collected,      \* the installer lists get_grpc_services has returned
  inner,          \* ModuleManager.inner: module -> Vec of instances
  rr_counters,    \* ModuleManager.rr_counters: key -> usize
  hb_ttl,         \* ModuleManager.hb_ttl
  hb_grace,       \* ModuleManager.hb_grace
  now,            \* the clock (Instant::now())
  iter_order,     \* the order in which ModuleManager.inner is iterated
  empty_modules,  \* deregister / evict_stale between their two lock scopes
  last_call,      \* the ModuleManager call that completed last, with its effect
  latest,         \* (module, instance_id) -> version registered last
  picks,          \* round-robin picks made since the directory last changed
  observe,        \* what is recorded: "calls" in last_call, "picks" in picks
  operation,      \* the OperationBuilder under construction
  ingress,        \* ApiIngress: router, OpenAPI registry and middleware stack
  request,        \* the request travelling through the finalized router
  limiter,        \* rate_limit: the TokenBucket and Semaphore of one route
  shutdown,       \* runner::run: the shutdown option and its waiter task
  hub_cfg,        \* GrpcHub: the listen configuration
  backend,        \* LocalProcessBackend.instances and the child processes
  rest_serve,     \* ApiIngress::serve under its lifecycle wrapper
  sync            \* ModuleManager: the locks and the calls that take them

hostVars == << builder, nregs, pc, registry, err, idx, inflight, log, cancel, all_installers, store >>

hubVars == << serve_tasks, takes, collected >>

mgrVars == << inner, rr_counters, hb_ttl, hb_grace, now, iter_order, empty_modules,
              last_call, latest, picks, observe >>

svcVars == << operation, ingress, request, limiter, shutdown, hub_cfg, backend,
             rest_serve, sync >>

\* the state outside the registry and the phase engine
ext == << hubVars, mgrVars, svcVars >>

vars == << hostVars, hubVars, mgrVars, svcVars >>

\* capabilities of the #[modkit::module] attribute
Caps == {"db", "rest", "rest_host", "stateful", "system", "grpc_hub", "grpc"}

\* module types the registrators are drawn from: the capability lists of
\* the repository's modules (file_parser, api_ingress, grpc_hub,
\* directory_service) and of db / stateful cores; sysmod tells whether the
\* type overrides as_system_module
ModuleTypes ==
  << [caps |-> {"rest"},                                    sysmod |-> FALSE],
     [caps |-> {"db", "stateful"},                          sysmod |-> FALSE],
     [caps |-> {"db", "stateful", "system"},                sysmod |-> FALSE],
     [caps |-> {"rest_host", "rest", "stateful", "system"}, sysmod |-> FALSE],
     [caps |-> {"stateful", "system", "grpc_hub"},          sysmod |-> TRUE],
     [caps |-> {"grpc", "system"},                          sysmod |-> TRUE],
     [caps |-> {},                                          sysmod |-> FALSE],
     [caps |-> {"stateful"},                                sysmod |-> FALSE] >>

HostTypes == 1..6
PlainTypes == {7}

\* the capability registrations the macro emits after register_core_with_meta
register_capabilities(b, name, caps) ==
  LET b1 == IF "db" \in caps        THEN register_db_with_meta(b, name)            ELSE b
      b2 == IF "rest" \in caps      THEN register_rest_with_meta(b1, name)         ELSE b1
      b3 == IF "rest_host" \in caps THEN register_rest_host_with_meta(b2, name)    ELSE b2
      b4 == IF "stateful" \in caps  THEN register_stateful_with_meta(b3, name)     ELSE b3
      b5 == IF "system" \in caps    THEN register_system_with_meta(b4, name)       ELSE b4
      b6 == IF "grpc_hub" \in caps  THEN register_grpc_hub_with_meta(b5, name)     ELSE b5
  IN       IF "grpc" \in caps       THEN register_grpc_service_with_meta(b6, name) ELSE b6

\* the registrator function the macro generates for one module
registrator(b, name, deps, t) ==
  register_capabilities(register_core_with_meta(b, name, deps, [type |-> t, sysmod |-> ModuleTypes[t].sysmod]),
                        name, ModuleTypes[t].caps)

\* Registrations are enumerated up to renaming of the modules: a new module
\* takes the next unused name, and its type is not ranked below the type of
\* a module registered before it.  A name already registered may be
\* registered again with any type.
Canonical(b, name, t) ==
  \/ name \in DOMAIN b.core
  \/ /\ NameRank(name) = Cardinality(DOMAIN b.core) + 1
     /\ \A n \in DOMAIN b.core : b.core[n].type <= t

NoRegistry == Rejected(NoErr)

\* ModuleRegistry::discover_and_build has not run, HostRuntime is not built
InitHost ==
  /\ builder = EmptyBuilder
  /\ nregs = 0
  /\ pc = "discover"
  /\ registry = NoRegistry
  /\ err = NoErr
  /\ idx = 1
  /\ inflight = {}
  /\ log = <<>>
  /\ cancel = FALSE
  /\ all_installers = <<>>
  /\ store = <<>>

\* a serve / run_with_installers invocation that has not been made
IdleTask == [pc |-> "idle", installers |-> <<>>, ready |-> FALSE, bound |-> FALSE, take_no |-> 0]

\* GrpcHub::default(): nothing served yet; GrpcInstallerStore::new()
InitHub ==
  /\ serve_tasks = [t \in 1..MaxServes |-> IdleTask]
  /\ takes = 0
  /\ collected = <<>>

\* no deregister / evict_stale call is between its two lock scopes
NoPending == [op |-> "none", modules |-> {}, module |-> NoName, id |-> NoName]

\* no ModuleManager call has completed
NoCall ==
  [op |-> "none", module |-> NoName, id |-> NoName, at |-> 0,
   removed |-> {}, added |-> {}, changed |-> {}, rr_removed |-> {}, rr_changed |-> {}]

\* ModuleManager::new().with_heartbeat_policy(ttl, grace)
InitMgr(ttls, graces, obs) ==
  /\ observe = obs
  /\ inner = <<>>
  /\ rr_counters = <<>>
  /\ hb_ttl \in ttls
  /\ hb_grace \in graces
  /\ now = 0
  /\ iter_order = <<>>
  /\ empty_modules = NoPending
  /\ last_call = NoCall
  /\ latest = <<>>
  /\ picks = <<>>

\* ModuleManager::new(): hb_ttl 15 s, hb_grace 30 s
DefaultTtl == 15
DefaultGrace == 30

\* no OperationBuilder is under construction
NoOp == [stage |-> "none"]

\* ApiIngress::default() and Router::new(); registrations counts the calls
\* of OperationBuilder::register
InitIngress ==
  /\ operation = NoOp
  /\ ingress = [routes |-> <<>>, panicked |-> FALSE,
                registered_handlers |-> {}, registered_routes |-> {},
                operation_specs |-> <<>>, errors |-> 0,
                built |-> 0, registrations |-> <<>>,
                layers |-> <<>>]
  /\ request = [kind |-> "none", seen |-> <<>>, reply |-> "none"]

\* the variants of ShutdownOptions
Modes == {"Signals", "Token", "Future"}

\* run(opts) has prepared the token and spawned the waiter of
\* opts.shutdown = mode; "any" stands for a run whose mode is left open.
\* fired: the signal was received, the external token was cancelled or the
\* external future completed.  spent[m]: the time stop of m has taken.
\* cancelled_in: the position of the host when the token was cancelled.
ShutdownOf(mode) ==
  [mode |-> mode, fired |-> FALSE, cancelled_in |-> "none",
   waiter |-> IF mode = "Signals" THEN "wait_for_shutdown"
              ELSE IF mode = "Future" THEN "waiter" ELSE "none",
   spent |-> [n \in Names |-> 0]]

\* the services around the host, with the shutdown options in shutdowns
InitSvcWith(shutdowns) ==
  /\ InitIngress
  /\ limiter = [made |-> FALSE]
  /\ shutdown \in shutdowns
  /\ hub_cfg = [made |-> FALSE]
  /\ backend = [made |-> FALSE]
  /\ rest_serve = [pc |-> "idle"]
  /\ sync = [made |-> FALSE]

InitSvc == InitSvcWith({ShutdownOf("any")})

Init == InitHost /\ InitHub /\ InitMgr({DefaultTtl}, {DefaultGrace}, {}) /\ InitSvc

(* ------------------------------ discovery ------------------------------ *)

\* one `r.0(&mut b)` of discover_and_build
RunRegistrator(depLists, types) ==
  /\ pc = "discover"
  /\ nregs < MaxRegs
  /\ \E name \in Names, deps \in depLists, t \in types :
       /\ Canonical(builder, name, t)
       /\ builder' = registrator(builder, name, deps, t)
  /\ nregs' = nregs + 1
  /\ UNCHANGED << pc, registry, err, idx, inflight, log, cancel, all_installers, store >>
  /\ UNCHANGED ext

\* build_topo_sorted returns before it iterates any map when a registration
\* error was collected or the rest host names no core
RejectedOnEntry(b) ==
  \/ b.rest_host # NoName /\ b.rest_host \notin DOMAIN b.core
  \/ b.errors # <<>>

\* the iteration orders of a map with key set S that the build can observe:
\* all of them, or a single one when the build never iterates the map
IterOrders(b, S) ==
  IF RejectedOnEntry(b) THEN { CHOOSE p \in Perms(S) : TRUE } ELSE Perms(S)

\* b.build_topo_sorted() and, in run, `?` on its result followed by
\* HostRuntime::new
discover_and_build ==
  /\ pc = "discover"
  /\ \E names \in IterOrders(builder, DOMAIN builder.core),
        depsIter \in IterOrders(builder, DOMAIN builder.deps),
        svcIter \in IterOrders(builder, builder.grpc_services),
        unk \in (IF UnknownCapability(builder) = {} THEN {NoName} ELSE UnknownCapability(builder)) :
       LET r == build_topo_sorted(builder, names, depsIter, svcIter, unk) IN
       /\ registry' = r
       /\ err' = r.err
       /\ pc' = IF r.ok THEN "wire" ELSE "failed"
  /\ idx' = 1
  /\ UNCHANGED << builder, nregs, inflight, log, cancel, all_installers, store >>
  /\ UNCHANGED ext

RegisterPlain == RunRegistrator(DepLists(MaxDeps), PlainTypes)

NextBuild == RegisterPlain \/ discover_and_build

SpecBuild == Init /\ [][NextBuild]_vars

(* ------------------------- hooks and the log --------------------------- *)

Event(hook, module, ev) == [hook |-> hook, module |-> module, ev |-> ev]

\* the host calls a module hook and awaits it
Call(hook, module) ==
  /\ inflight' = inflight \cup {<<hook, module>>}
  /\ log' = Append(log, Event(hook, module, "call"))

\* the awaited hook returns res ("ok" or "err")
Return(hook, module, res) ==
  /\ inflight' = inflight \ {<<hook, module>>}
  /\ log' = Append(log, Event(hook, module, res))

\* `?` on an Err: run_full_cycle returns it
Fail(e) == pc' = "failed" /\ err' = e

\* the host goes on without awaiting the hook it called
Awaited_not == TRUE

\* the host is suspended on the hooks in flight (.await)
Awaited == inflight = {}

\* first position j >= from of L whose entry is in the index set S, 0 if none
NextIdx(L, from, S) ==
  IF \E j \in from..Len(L) : j \in S
    THEN CHOOSE j \in from..Len(L) : j \in S /\ \A k \in from..(j - 1) : k \notin S
    ELSE 0

Results == {"ok", "err"}

\* service names and the installer lists a grpc module may return
SvcNames == {"s1", "s2"}
InstallerLists == UNION { [1..l -> SvcNames] : l \in 0..MaxInstallers }

(* ------------------------------ wire_system ---------------------------- *)

\* what the host hands to each hook at its call site: the SystemContext
\* (module manager and installer store) is built in wire_system only; the
\* ctx_builder's ModuleCtx is made of modules_cfg, client_hub, cancel and
\* db_manager
ContextOf(hook) ==
  CASE hook = "wire_system" -> "SystemContext"
    [] hook = "migrate" -> "DbHandle"
    [] hook \in {"init", "rest_prepare", "register_rest", "rest_finalize",
                 "get_grpc_services"} -> "ModuleCtx"
    [] hook \in {"start", "stop"} -> "CancellationToken"
    [] OTHER -> "none"

\* every module flagged system is wired, whether or not it exposes the hook
WireSet_all_system == { i \in 1..Len(registry.modules) : registry.modules[i].is_system }

WireSet == { i \in 1..Len(registry.modules) :
               registry.modules[i].is_system /\ registry.modules[i].core.sysmod }

wire_system_call ==
  /\ pc = "wire" /\ Awaited
  /\ NextIdx(registry.modules, idx, WireSet) # 0
  /\ idx' = NextIdx(registry.modules, idx, WireSet)
  /\ Call("wire_system", registry.modules[idx'].name)
  /\ UNCHANGED << builder, nregs, pc, registry, err, cancel, all_installers, store >>
  /\ UNCHANGED ext

\* wire_system returns (): it cannot fail
wire_system_ret ==
  /\ pc = "wire" /\ inflight # {}
  /\ Return("wire_system", registry.modules[idx].name, "ok")
  /\ idx' = idx + 1
  /\ UNCHANGED << builder, nregs, pc, registry, err, cancel, all_installers, store >>
  /\ UNCHANGED ext

wire_system_end ==
  /\ pc = "wire" /\ Awaited
  /\ NextIdx(registry.modules, idx, WireSet) = 0
  /\ pc' = "db" /\ idx' = 1
  /\ UNCHANGED << builder, nregs, registry, err, inflight, log, cancel, all_installers, store >>
  /\ UNCHANGED ext

(* ------------------------------ run_db_phase --------------------------- *)

\* Entries idx..j-1 are passed over (context built; no db capability, or no
\* DB handle configured for the module); at entry j either the context
\* builder fails or the migration of a module with a DB handle is invoked.
run_db_phase_call ==
  /\ pc = "db" /\ Awaited
  /\ LET L == modules_by_system_priority(registry) IN
     \E j \in idx..Len(L) :
       /\ idx' = j
       /\ \/ /\ Fail(Err("DbMigrate", L[j].name, <<"context">>))
             /\ UNCHANGED << inflight, log >>
          \/ /\ L[j].db
             /\ Call("migrate", L[j].name)
             /\ UNCHANGED << pc, err >>
  /\ UNCHANGED << builder, nregs, registry, cancel, all_installers, store >>
  /\ UNCHANGED ext

run_db_phase_ret ==
  /\ pc = "db" /\ inflight # {}
  /\ LET m == modules_by_system_priority(registry)[idx].name IN
     \E res \in Results :
       /\ Return("migrate", m, res)
       /\ IF res = "ok" THEN idx' = idx + 1 /\ UNCHANGED << pc, err >>
          ELSE Fail(Err("DbMigrate", m, <<"hook">>)) /\ UNCHANGED idx
  /\ UNCHANGED << builder, nregs, registry, cancel, all_installers, store >>
  /\ UNCHANGED ext

\* every remaining entry was passed over
run_db_phase_end ==
  /\ pc = "db" /\ Awaited
  /\ pc' = "init" /\ idx' = 1
  /\ UNCHANGED << builder, nregs, registry, err, inflight, log, cancel, all_installers, store >>
  /\ UNCHANGED ext

(* ----------------------------- run_init_phase -------------------------- *)

run_init_phase_call ==
  /\ pc = "init" /\ Awaited
  /\ LET L == modules_by_system_priority(registry) IN
     /\ idx <= Len(L)
     /\ \/ /\ Fail(Err("Init", L[idx].name, <<"context">>))
           /\ UNCHANGED << inflight, log >>
        \/ /\ Call("init", L[idx].name)
           /\ UNCHANGED << pc, err >>
  /\ UNCHANGED << builder, nregs, registry, idx, cancel, all_installers, store >>
  /\ UNCHANGED ext

run_init_phase_ret ==
  /\ pc = "init" /\ inflight # {}
  /\ LET m == modules_by_system_priority(registry)[idx].name IN
     \E res \in Results :
       /\ Return("init", m, res)
       /\ IF res = "ok" THEN idx' = idx + 1 /\ UNCHANGED << pc, err >>
          ELSE Fail(Err("Init", m, <<"hook">>)) /\ UNCHANGED idx
  /\ UNCHANGED << builder, nregs, registry, cancel, all_installers, store >>
  /\ UNCHANGED ext

run_init_phase_end ==
  /\ pc = "init" /\ Awaited
  /\ idx > Len(modules_by_system_priority(registry))
  /\ pc' = "rest" /\ idx' = 1
  /\ UNCHANGED << builder, nregs, registry, err, inflight, log, cancel, all_installers, store >>
  /\ UNCHANGED ext

(* ----------------------------- run_rest_phase -------------------------- *)

Hosts == { i \in 1..Len(registry.modules) : registry.modules[i].rest_host }
RestSet == { i \in 1..Len(registry.modules) : registry.modules[i].rest }

\* registry.modules().iter().position(|e| e.rest_host.is_some())
HostEntry == registry.modules[CHOOSE i \in Hosts : \A k \in Hosts : i <= k]

\* zero hosts is accepted even when rest modules exist
run_rest_phase_begin_no_check ==
  /\ pc = "rest" /\ Awaited
  /\ IF Cardinality(Hosts) = 0
       THEN /\ pc' = "grpc" /\ UNCHANGED err
            /\ UNCHANGED << inflight, log >>
     ELSE IF Cardinality(Hosts) > 1
       THEN Fail(Err("MultipleRestHosts", NoName, <<>>)) /\ UNCHANGED << inflight, log >>
     ELSE \/ /\ Fail(Err("RestPrepare", HostEntry.name, <<"context">>))
             /\ UNCHANGED << inflight, log >>
          \/ /\ Call("rest_prepare", HostEntry.name)
             /\ pc' = "rest_prepare" /\ UNCHANGED err
  /\ idx' = 1
  /\ UNCHANGED << builder, nregs, registry, cancel, all_installers, store >>
  /\ UNCHANGED ext

\* `match hosts.len()`, the host's context and rest_prepare
run_rest_phase_begin ==
  /\ pc = "rest" /\ Awaited
  /\ IF Cardinality(Hosts) = 0
       THEN /\ IF RestSet # {}
                 THEN Fail(Err("RestRequiresHost", NoName, <<>>))
                 ELSE pc' = "grpc" /\ UNCHANGED err
            /\ UNCHANGED << inflight, log >>
     ELSE IF Cardinality(Hosts) > 1
       THEN Fail(Err("MultipleRestHosts", NoName, <<>>)) /\ UNCHANGED << inflight, log >>
     ELSE \/ /\ Fail(Err("RestPrepare", HostEntry.name, <<"context">>))
             /\ UNCHANGED << inflight, log >>
          \/ /\ Call("rest_prepare", HostEntry.name)
             /\ pc' = "rest_prepare" /\ UNCHANGED err
  /\ idx' = 1
  /\ UNCHANGED << builder, nregs, registry, cancel, all_installers, store >>
  /\ UNCHANGED ext

rest_prepare_ret ==
  /\ pc = "rest_prepare" /\ inflight # {}
  /\ \E res \in Results :
       /\ Return("rest_prepare", HostEntry.name, res)
       /\ IF res = "ok" THEN pc' = "rest_register" /\ UNCHANGED err
          ELSE Fail(Err("RestPrepare", HostEntry.name, <<"hook">>))
  /\ idx' = 1
  /\ UNCHANGED << builder, nregs, registry, cancel, all_installers, store >>
  /\ UNCHANGED ext

register_rest_call ==
  /\ pc = "rest_register" /\ Awaited
  /\ NextIdx(registry.modules, idx, RestSet) # 0
  /\ idx' = NextIdx(registry.modules, idx, RestSet)
  /\ \/ /\ Fail(Err("RestRegister", registry.modules[idx'].name, <<"context">>))
        /\ UNCHANGED << inflight, log >>
     \/ /\ Call("register_rest", registry.modules[idx'].name)
        /\ UNCHANGED << pc, err >>
  /\ UNCHANGED << builder, nregs, registry, cancel, all_installers, store >>
  /\ UNCHANGED ext

register_rest_ret ==
  /\ pc = "rest_register" /\ inflight # {}
  /\ LET m == registry.modules[idx].name IN
     \E res \in Results :
       /\ Return("register_rest", m, res)
       /\ IF res = "ok" THEN idx' = idx + 1 /\ UNCHANGED << pc, err >>
          ELSE Fail(Err("RestRegister", m, <<"hook">>)) /\ UNCHANGED idx
  /\ UNCHANGED << builder, nregs, registry, cancel, all_installers, store >>
  /\ UNCHANGED ext

\* the host finalizes without waiting for the remaining rest modules
rest_finalize_call_early ==
  /\ pc = "rest_register" /\ Awaited
  /\ Call("rest_finalize", HostEntry.name)
  /\ pc' = "rest_finalize"
  /\ UNCHANGED << builder, nregs, registry, err, idx, cancel, all_installers, store >>
  /\ UNCHANGED ext

rest_finalize_call ==
  /\ pc = "rest_register" /\ Awaited
  /\ NextIdx(registry.modules, idx, RestSet) = 0
  /\ Call("rest_finalize", HostEntry.name)
  /\ pc' = "rest_finalize"
  /\ UNCHANGED << builder, nregs, registry, err, idx, cancel, all_installers, store >>
  /\ UNCHANGED ext

rest_finalize_ret ==
  /\ pc = "rest_finalize" /\ inflight # {}
  /\ \E res \in Results :
       /\ Return("rest_finalize", HostEntry.name, res)
       /\ IF res = "ok" THEN pc' = "grpc" /\ UNCHANGED err
          ELSE Fail(Err("RestFinalize", HostEntry.name, <<"hook">>))
  /\ idx' = 1
  /\ UNCHANGED << builder, nregs, registry, cancel, all_installers, store >>
  /\ UNCHANGED ext

(* ----------------------------- run_grpc_phase -------------------------- *)

\* GrpcInstallerStore::set: [ok, inner]
GrpcInstallerStore_set(guard, installers) ==
  IF guard # <<>> THEN [ok |-> FALSE, inner |-> guard]
  ELSE [ok |-> TRUE, inner |-> installers]

\* HashSet::insert never reports a service name as already seen
FirstDuplicate_none(seen, installers) == 0

\* the `for reg in installers` loop: position of the first installer whose
\* service name was already seen, 0 if none
FirstDuplicate(seen, installers) ==
  LET dup == { k \in 1..Len(installers) :
                 installers[k] \in Range(seen) \cup { installers[j] : j \in 1..(k - 1) } }
  IN IF dup = {} THEN 0 ELSE CHOOSE k \in dup : \A j \in dup : k <= j

\* no hub registered: nothing to do, or services without a hub
run_grpc_phase_nohub ==
  /\ pc = "grpc" /\ Awaited
  /\ registry.grpc_hub = NoName
  /\ IF registry.grpc_services = <<>>
       THEN pc' = "start" /\ UNCHANGED err
       ELSE Fail(Err("GrpcRequiresHub", NoName, <<>>))
  /\ idx' = 1
  /\ UNCHANGED << builder, nregs, registry, inflight, log, cancel, all_installers, store >>
  /\ UNCHANGED ext

get_grpc_services_call ==
  /\ pc = "grpc" /\ Awaited
  /\ registry.grpc_hub # NoName
  /\ idx <= Len(registry.grpc_services)
  /\ \/ /\ Fail(Err("GrpcRegister", registry.grpc_services[idx], <<"context">>))
        /\ UNCHANGED << inflight, log >>
     \/ /\ Call("get_grpc_services", registry.grpc_services[idx])
        /\ UNCHANGED << pc, err >>
  /\ UNCHANGED << builder, nregs, registry, idx, cancel, all_installers, store >>
  /\ UNCHANGED ext

get_grpc_services_ret ==
  /\ pc = "grpc" /\ inflight # {}
  /\ LET m == registry.grpc_services[idx] IN
     \/ /\ Return("get_grpc_services", m, "err")
        /\ Fail(Err("GrpcRegister", m, <<"hook">>))
        /\ UNCHANGED << idx, all_installers, collected >>
     \/ \E installers \in InstallerLists :
          /\ Return("get_grpc_services", m, "ok")
          /\ collected' = Append(collected, installers)
          /\ IF FirstDuplicate(all_installers, installers) # 0
               THEN /\ Fail(Err("GrpcRegister", m, <<"duplicate">>))
                    /\ all_installers' = all_installers
                         \o SubSeq(installers, 1, FirstDuplicate(all_installers, installers) - 1)
                    /\ UNCHANGED idx
               ELSE /\ all_installers' = all_installers \o installers
                    /\ idx' = idx + 1
                    /\ UNCHANGED << pc, err >>
  /\ UNCHANGED << builder, nregs, registry, cancel, store >>
  /\ UNCHANGED << serve_tasks, takes, mgrVars, svcVars >>

\* self.grpc_installers.set(all_installers)
run_grpc_phase_set ==
  /\ pc = "grpc" /\ Awaited
  /\ registry.grpc_hub # NoName
  /\ idx > Len(registry.grpc_services)
  /\ LET r == GrpcInstallerStore_set(store, all_installers) IN
     /\ store' = r.inner
     /\ IF r.ok THEN pc' = "start" /\ UNCHANGED err
        ELSE Fail(Err("GrpcRegister", registry.grpc_hub, <<"set">>))
  /\ idx' = 1
  /\ UNCHANGED << builder, nregs, registry, inflight, log, cancel, all_installers >>
  /\ UNCHANGED ext

(* ------------------------- start, wait and stop ------------------------ *)

StartSet == { i \in 1..Len(registry.modules) : modules_by_system_priority(registry)[i].stateful }

run_start_phase_call ==
  /\ pc = "start" /\ Awaited
  /\ NextIdx(modules_by_system_priority(registry), idx, StartSet) # 0
  /\ idx' = NextIdx(modules_by_system_priority(registry), idx, StartSet)
  /\ Call("start", modules_by_system_priority(registry)[idx'].name)
  /\ UNCHANGED << builder, nregs, pc, registry, err, cancel, all_installers, store >>
  /\ UNCHANGED ext

\* a failed start is logged and the loop goes on
run_start_phase_ret_continue ==
  /\ pc = "start" /\ inflight # {}
  /\ \E res \in Results :
       Return("start", modules_by_system_priority(registry)[idx].name, res)
  /\ idx' = idx + 1
  /\ UNCHANGED << builder, nregs, pc, registry, err, cancel, all_installers, store >>
  /\ UNCHANGED ext

run_start_phase_ret ==
  /\ pc = "start" /\ inflight # {}
  /\ LET m == modules_by_system_priority(registry)[idx].name IN
     \E res \in Results :
       /\ Return("start", m, res)
       /\ IF res = "ok" THEN idx' = idx + 1 /\ UNCHANGED << pc, err >>
          ELSE Fail(Err("Start", m, <<"hook">>)) /\ UNCHANGED idx
  /\ UNCHANGED << builder, nregs, registry, cancel, all_installers, store >>
  /\ UNCHANGED ext

\* the start loop is left as soon as the token is cancelled
run_start_phase_end_on_cancel ==
  /\ pc = "start" /\ Awaited
  /\ NextIdx(modules_by_system_priority(registry), idx, StartSet) = 0 \/ cancel
  /\ pc' = "wait" /\ idx' = 1
  /\ UNCHANGED << builder, nregs, registry, err, inflight, log, cancel, all_installers, store >>
  /\ UNCHANGED ext

run_start_phase_end ==
  /\ pc = "start" /\ Awaited
  /\ NextIdx(modules_by_system_priority(registry), idx, StartSet) = 0
  /\ pc' = "wait" /\ idx' = 1
  /\ UNCHANGED << builder, nregs, registry, err, inflight, log, cancel, all_installers, store >>
  /\ UNCHANGED ext

\* the shutdown trigger (signal, external token or external future)
shutdown_trigger ==
  /\ pc = "wait" /\ ~cancel
  /\ cancel' = TRUE
  /\ UNCHANGED << builder, nregs, pc, registry, err, idx, inflight, log, all_installers, store >>
  /\ UNCHANGED ext

\* self.cancel.cancelled().await
wait_cancelled ==
  /\ pc = "wait" /\ cancel
  /\ pc' = "stop" /\ idx' = 1
  /\ UNCHANGED << builder, nregs, registry, err, inflight, log, cancel, all_installers, store >>
  /\ UNCHANGED ext

\* self.registry.modules().iter().rev()
stop_order(reg) == Reverse(reg.modules)

StopSet == { i \in 1..Len(registry.modules) : stop_order(registry)[i].stateful }

run_stop_phase_call ==
  /\ pc = "stop" /\ Awaited
  /\ NextIdx(stop_order(registry), idx, StopSet) # 0
  /\ idx' = NextIdx(stop_order(registry), idx, StopSet)
  /\ Call("stop", stop_order(registry)[idx'].name)
  /\ UNCHANGED << builder, nregs, pc, registry, err, cancel, all_installers, store >>
  /\ UNCHANGED ext

\* a failed stop is propagated with `?`
run_stop_phase_ret_propagate ==
  /\ pc = "stop" /\ inflight # {}
  /\ LET m == stop_order(registry)[idx].name IN
     \E res \in Results :
       /\ Return("stop", m, res)
       /\ IF res = "ok" THEN idx' = idx + 1 /\ UNCHANGED << pc, err >>
          ELSE Fail(Err("Stop", m, <<"hook">>)) /\ UNCHANGED idx
  /\ UNCHANGED << builder, nregs, registry, cancel, all_installers, store >>
  /\ UNCHANGED ext

\* an Err is logged and the loop goes on
run_stop_phase_ret ==
  /\ pc = "stop" /\ inflight # {}
  /\ \E res \in Results : Return("stop", stop_order(registry)[idx].name, res)
  /\ idx' = idx + 1
  /\ UNCHANGED << builder, nregs, pc, registry, err, cancel, all_installers, store >>
  /\ UNCHANGED ext

\* run_stop_phase returns Ok(()), and so does run_full_cycle
run_stop_phase_end ==
  /\ pc = "stop" /\ Awaited
  /\ NextIdx(stop_order(registry), idx, StopSet) = 0
  /\ pc' = "done"
  /\ UNCHANGED << builder, nregs, registry, err, idx, inflight, log, cancel, all_installers, store >>
  /\ UNCHANGED ext

(* -------------------------------- GrpcHub ------------------------------ *)

\* rank of a service name
SvcRank(n) == IF n = "s1" THEN 1 ELSE 2

\* the installer lists a caller may pass to run_with_installers directly,
\* up to renaming of the services: a name appears only after the names
\* ranked below it
HubInstallerLists ==
  UNION { { l \in [1..k -> SvcNames] :
              \A i \in 1..k : \A n \in SvcNames :
                SvcRank(n) < SvcRank(l[i]) => \E j \in 1..(i - 1) : l[j] = n }
          : k \in 0..MaxHubInstallers }

\* the start hook of the grpc_hub module (lifecycle entry = "serve") was invoked
HubStarted ==
  /\ registry.ok /\ registry.grpc_hub # NoName
  /\ \E i \in 1..Len(log) : log[i] = Event("start", registry.grpc_hub, "call")

\* GrpcHub::wire_system has stored the installer store in the hub
HubWired ==
  \E i \in 1..Len(log) : log[i] = Event("wire_system", registry.grpc_hub, "ok")

\* Invocations are numbered in the order they are made.  The steps of an
\* invocation up to the bind touch nothing another invocation reads, so the
\* invocations are explored with these steps taken one invocation at a time.
NextTask(t) ==
  /\ serve_tasks[t].pc = "idle"
  /\ t > 1 => serve_tasks[t - 1].pc \notin {"idle", "check", "bind"}
  /\ ~cancel

\* GrpcInstallerStore::take: [installers, inner]
GrpcInstallerStore_take(guard) == [installers |-> guard, inner |-> <<>>]

\* GrpcHub::serve up to the call of run_with_installers
serve(t) ==
  /\ HubStarted /\ NextTask(t)
  /\ IF ~HubWired
       THEN /\ serve_tasks' = [serve_tasks EXCEPT ![t].pc = "err"]
            /\ UNCHANGED << store, takes >>
       ELSE LET r == GrpcInstallerStore_take(store) IN
            /\ store' = r.inner
            /\ takes' = takes + 1
            /\ serve_tasks' = [serve_tasks EXCEPT ![t] =
                 [@ EXCEPT !.pc = "check", !.installers = r.installers, !.take_no = takes + 1]]
  /\ UNCHANGED << builder, nregs, pc, registry, err, idx, inflight, log, cancel, all_installers >>
  /\ UNCHANGED << collected, mgrVars, svcVars >>

\* run_with_installers called on a GrpcHub of the caller's own, with a list
\* of the caller's own and no registered module (as the module's tests do)
run_with_installers_direct(t) ==
  /\ pc = "discover" /\ nregs = 0
  /\ NextTask(t)
  /\ \E installers \in HubInstallerLists :
       serve_tasks' = [serve_tasks EXCEPT ![t] = [@ EXCEPT !.pc = "check", !.installers = installers]]
  /\ UNCHANGED << hostVars, takes, collected, mgrVars, svcVars >>

\* run_with_installers: the duplicate check, the route table and
\* ready.notify(), up to the point where the listener is to be bound
run_with_installers(t) ==
  /\ serve_tasks[t].pc = "check"
  /\ LET installers == serve_tasks[t].installers IN
     serve_tasks' = [serve_tasks EXCEPT ![t] =
       IF FirstDuplicate(<<>>, installers) # 0 THEN [@ EXCEPT !.pc = "err"]
       ELSE IF installers = <<>> THEN [@ EXCEPT !.pc = "wait_cancel", !.ready = TRUE]
       ELSE [@ EXCEPT !.pc = "bind", !.ready = TRUE]]
  /\ UNCHANGED << hostVars, takes, collected, mgrVars, svcVars >>

\* serve_with_shutdown / UnixListener::bind: the listener is bound, or the
\* bind fails and the error is returned with `?`
hub_bind(t) ==
  /\ serve_tasks[t].pc = "bind"
  /\ \/ serve_tasks' = [serve_tasks EXCEPT ![t] = [@ EXCEPT !.pc = "serving", !.bound = TRUE]]
     \/ serve_tasks' = [serve_tasks EXCEPT ![t].pc = "err"]
  /\ UNCHANGED << hostVars, takes, collected, mgrVars, svcVars >>

\* cancel.cancelled().await is over: run_with_installers returns Ok(())
hub_cancelled(t) ==
  /\ serve_tasks[t].pc \in {"serving", "wait_cancel"}
  /\ cancel
  /\ serve_tasks' = [serve_tasks EXCEPT ![t].pc = "ok"]
  /\ UNCHANGED << hostVars, takes, collected, mgrVars, svcVars >>

(* ---------------------------- specifications --------------------------- *)

Register == RunRegistrator(DepLists(MaxHostDeps), HostTypes)

Next ==
  \/ Register
  \/ discover_and_build
  \/ wire_system_call \/ wire_system_ret \/ wire_system_end
  \/ run_db_phase_call \/ run_db_phase_ret \/ run_db_phase_end
  \/ run_init_phase_call \/ run_init_phase_ret \/ run_init_phase_end
  \/ run_rest_phase_begin \/ rest_prepare_ret
  \/ register_rest_call \/ register_rest_ret
  \/ rest_finalize_call \/ rest_finalize_ret
  \/ run_grpc_phase_nohub \/ get_grpc_services_call \/ get_grpc_services_ret
  \/ run_grpc_phase_set
  \/ run_start_phase_call \/ run_start_phase_ret \/ run_start_phase_end
  \/ shutdown_trigger \/ wait_cancelled
  \/ run_stop_phase_call \/ run_stop_phase_ret \/ run_stop_phase_end

Spec == Init /\ [][Next]_vars

\* module types of the gRPC side: grpc_hub and a grpc service module
GrpcTypes == {5, 6}

RegisterGrpc ==
  /\ serve_tasks[1].pc = "idle"
  /\ RunRegistrator(DepLists(0), GrpcTypes)

NextHub ==
  \/ RegisterGrpc
  \/ discover_and_build
  \/ wire_system_call \/ wire_system_ret \/ wire_system_end
  \/ run_db_phase_call \/ run_db_phase_end
  \/ run_init_phase_call \/ run_init_phase_ret \/ run_init_phase_end
  \/ run_rest_phase_begin
  \/ run_grpc_phase_nohub \/ get_grpc_services_call \/ get_grpc_services_ret
  \/ run_grpc_phase_set
  \/ run_start_phase_call \/ run_start_phase_ret \/ run_start_phase_end
  \/ shutdown_trigger \/ wait_cancelled
  \/ run_stop_phase_call \/ run_stop_phase_ret \/ run_stop_phase_end
  \/ \E t \in 1..MaxServes :
       serve(t) \/ run_with_installers_direct(t) \/ run_with_installers(t)
         \/ hub_bind(t) \/ hub_cancelled(t)

SpecHub == Init /\ [][NextHub]_vars


\* set and take calls made on one GrpcInstallerStore
MaxStoreCalls == 4

\* GrpcInstallerStore::set(installers) by any caller; the log keeps the
\* result of the call
store_set ==
  /\ pc = "discover" /\ nregs = 0
  /\ Len(log) < MaxStoreCalls
  /\ \E installers \in HubInstallerLists :
       LET r == GrpcInstallerStore_set(store, installers) IN
       /\ store' = r.inner
       /\ log' = Append(log, Event("set", NoName, IF r.ok THEN "ok" ELSE "err"))
  /\ UNCHANGED << builder, nregs, pc, registry, err, idx, inflight, cancel, all_installers >>
  /\ UNCHANGED ext

\* GrpcInstallerStore::take() by any caller
store_take ==
  /\ pc = "discover" /\ nregs = 0
  /\ Len(log) < MaxStoreCalls
  /\ store' = GrpcInstallerStore_take(store).inner
  /\ log' = Append(log, Event("take", NoName, "ok"))
  /\ UNCHANGED << builder, nregs, pc, registry, err, idx, inflight, cancel, all_installers >>
  /\ UNCHANGED ext

NextStore == store_set \/ store_take

SpecStore == Init /\ [][NextStore]_vars

(* ----------------------------- ModuleManager --------------------------- *)

\* module names, instance ids and versions of the instances that register
MgrModules == {"m1", "m2"}
InstanceIds == {"i1", "i2", "i3"}
Versions == {"v1", "v2"}

\* gRPC service names instances offer; rr_counters is keyed by module name
\* and by service name alike, and a service may be named like a module
ServiceKeys == {"m1", "s1"}

IdRank(i) == CASE i = "i1" -> 1 [] i = "i2" -> 2 [] OTHER -> 3

\* ModuleInstance::new(module, instance_id).with_version(v).with_grpc_service(..)
ModuleInstance(id, v, svcs, t) ==
  [instance_id |-> id, version |-> v, grpc_services |-> svcs,
   state |-> "Registered", last_heartbeat |-> t]

\* instances_of(module)
instances_of(inn, m) == IF m \in DOMAIN inn THEN inn[m] ELSE <<>>

\* vec.iter().position(|i| i.instance_id == id), 0 for None
IdPosition(vec, id) ==
  IF \E k \in 1..Len(vec) : vec[k].instance_id = id
    THEN CHOOSE k \in 1..Len(vec) :
           vec[k].instance_id = id /\ \A j \in 1..(k - 1) : vec[j].instance_id # id
    ELSE 0

\* DashMap::remove for every key of S
RemoveKeys(f, S) == [k \in DOMAIN f \ S |-> f[k]]

\* a new instance is always pushed
register_instance_push(inn, m, inst) == (m :> Append(instances_of(inn, m), inst)) @@ inn

register_instance(inn, m, inst) ==
  LET vec == instances_of(inn, m)
      pos == IdPosition(vec, inst.instance_id)
  IN (m :> (IF pos # 0 THEN [vec EXCEPT ![pos] = inst] ELSE Append(vec, inst))) @@ inn

\* `if let Some(mut vec) = inner.get_mut(module)` and
\* `if let Some(inst) = vec.iter_mut().find(|i| i.instance_id == id)`
Found(inn, m, id) == m \in DOMAIN inn /\ IdPosition(inn[m], id) # 0

mark_ready(inn, m, id) ==
  IF ~Found(inn, m, id) THEN inn
  ELSE [inn EXCEPT ![m][IdPosition(inn[m], id)].state = "Ready"]

\* every heartbeat makes the instance Healthy
update_heartbeat_always_healthy(inn, m, id, at) ==
  IF ~Found(inn, m, id) THEN inn
  ELSE [inn EXCEPT ![m][IdPosition(inn[m], id)] =
          [@ EXCEPT !.last_heartbeat = at, !.state = "Healthy"]]

update_heartbeat(inn, m, id, at) ==
  IF ~Found(inn, m, id) THEN inn
  ELSE [inn EXCEPT ![m][IdPosition(inn[m], id)] =
          [@ EXCEPT !.last_heartbeat = at,
                    !.state = IF @ = "Registered" THEN "Healthy" ELSE @]]

mark_quarantined(inn, m, id) ==
  IF ~Found(inn, m, id) THEN inn
  ELSE [inn EXCEPT ![m][IdPosition(inn[m], id)].state = "Quarantined"]

\* list.retain(|inst| inst.instance_id != instance_id)
RetainOthers(vec, id) == SelectSeq(vec, LAMBDA i : i.instance_id # id)

\* now.saturating_duration_since(last_heartbeat)
Age(t, i) == IF t >= i.last_heartbeat THEN t - i.last_heartbeat ELSE 0

\* the retain closure of evict_stale on one bucket
RECURSIVE EvictRetain(_, _, _, _)
EvictRetain(vec, t, ttl, grace) ==
  IF vec = <<>> THEN <<>>
  ELSE LET i    == Head(vec)
           rest == EvictRetain(Tail(vec), t, ttl, grace)
       IN IF Age(t, i) >= ttl /\ i.state \notin {"Quarantined", "Draining"}
            THEN << [i EXCEPT !.state = "Quarantined"] >> \o rest
          ELSE IF i.state = "Quarantined" /\ Age(t, i) >= ttl + grace
            THEN rest
          ELSE << i >> \o rest

Selectable(i) == i.state \in {"Healthy", "Ready"}

\* the candidates of pick_instance_round_robin: every instance counts
InstanceCandidates_all(inn, m) == instances_of(inn, m)

\* the candidates of pick_instance_round_robin
InstanceCandidates(inn, m) ==
  LET instances == instances_of(inn, m)
      healthy   == SelectSeq(instances, Selectable)
  IN IF healthy = <<>> THEN instances ELSE healthy

\* the candidates of pick_service_round_robin, as <<module, instance>>,
\* collected over the buckets in the iteration order `order`
RECURSIVE ServiceCandidates(_, _, _)
ServiceCandidates(inn, order, svc) ==
  IF order = <<>> THEN <<>>
  ELSE LET m == Head(order)
           c == SelectSeq(inn[m], LAMBDA i : svc \in i.grpc_services /\ Selectable(i))
       IN [k \in 1..Len(c) |-> <<m, c[k]>>] \o ServiceCandidates(inn, Tail(order), svc)

\* rr_counters.entry(key).or_insert(0)
CounterOf(rr, key) == IF key \in DOMAIN rr THEN rr[key] ELSE 0

\* the stored counter is bumped and never wrapped
RoundRobin_unwrapped(rr, key, len) ==
  [idx |-> CounterOf(rr, key) % len,
   rr  |-> (key :> (CounterOf(rr, key) + 1)) @@ rr]

\* idx = *counter % len; *counter = (*counter + 1) % len
RoundRobin(rr, key, len) ==
  [idx |-> CounterOf(rr, key) % len,
   rr  |-> (key :> ((CounterOf(rr, key) + 1) % len)) @@ rr]

\* the instances of the directory as <<module, instance>> pairs
Records(inn) == UNION { { <<m, inn[m][k]>> : k \in 1..Len(inn[m]) } : m \in DOMAIN inn }

SameIdentity(p, q) == p[1] = q[1] /\ p[2].instance_id = q[2].instance_id

\* what a step has done to the directory and to the counters: the
\* instances it removed, added and changed (before, after), the counters it
\* removed and the counters it created or changed
Effect(op, m, id, at) ==
  IF "calls" \notin observe THEN NoCall ELSE
  [op |-> op, module |-> m, id |-> id, at |-> at,
   removed    |-> { p \in Records(inner) : ~\E q \in Records(inner') : SameIdentity(p, q) },
   added      |-> { q \in Records(inner') : ~\E p \in Records(inner) : SameIdentity(p, q) },
   changed    |-> { <<p, q>> \in Records(inner) \X Records(inner') : SameIdentity(p, q) /\ p # q },
   rr_removed |-> DOMAIN rr_counters \ DOMAIN rr_counters',
   rr_changed |-> { k \in DOMAIN rr_counters' : CounterOf(rr_counters, k) # rr_counters'[k]
                                                  \/ k \notin DOMAIN rr_counters }]

\* number of instances in the directory
Population == Cardinality(Records(inner))

\* the state no ModuleManager call touches
MgrFrame == UNCHANGED << hostVars, hubVars, hb_ttl, hb_grace, observe, svcVars >>

\* the instances a call may name: those in the directory
Known == { <<p[1], p[2].instance_id>> : p \in Records(inner) }

\* the identities in use: in the directory, or named by a deregister that
\* is between its two lock scopes
Held == Known \cup (IF empty_modules.op = "deregister"
                      THEN {<<empty_modules.module, empty_modules.id>>} ELSE {})

\* Instance ids are enumerated up to renaming: a module's new instance takes
\* the lowest id that is not in use for the module.
CanonicalId(m, id) ==
  \/ <<m, id>> \in Known
  \/ /\ <<m, id>> \notin Held
     /\ \A j \in InstanceIds : IdRank(j) < IdRank(id) => <<m, j>> \in Held

\* the versions registered last, of the identities still in directory inn
LatestIn(inn) ==
  LET here == { <<p[1], p[2].instance_id>> : p \in Records(inn) }
  IN [k \in DOMAIN latest \cap here |-> latest[k]]

\* the iteration orders of the map once key m is in it: the order is kept
\* while the key set is, and is any order once a key was inserted
OrdersWith(m) == IF m \in DOMAIN inner THEN {iter_order} ELSE Perms(DOMAIN inner \cup {m})

\* ModuleManager::register_instance with an instance built by
\* ModuleInstance::new at the current instant
register_instance_call(modules, versions, svcsets, cap) ==
  /\ \E m \in modules, id \in InstanceIds, v \in versions, svcs \in svcsets :
       /\ CanonicalId(m, id)
       /\ Population < cap \/ IdPosition(instances_of(inner, m), id) # 0
       /\ inner' = register_instance(inner, m, ModuleInstance(id, v, svcs, now))
       /\ iter_order' \in OrdersWith(m)
       /\ latest' = (<<m, id>> :> v) @@ latest
       /\ UNCHANGED << rr_counters, now, empty_modules >>
       /\ last_call' = Effect("register_instance", m, id, now)
  /\ picks' = <<>>
  /\ MgrFrame


mark_ready_call ==
  /\ \E k \in Known :
       /\ inner' = mark_ready(inner, k[1], k[2])
       /\ UNCHANGED << rr_counters, now, iter_order, empty_modules, latest >>
       /\ last_call' = Effect("mark_ready", k[1], k[2], now)
  /\ picks' = <<>>
  /\ MgrFrame

\* update_heartbeat(module, id, Instant::now())
update_heartbeat_call ==
  /\ \E k \in Known :
       /\ inner' = update_heartbeat(inner, k[1], k[2], now)
       /\ UNCHANGED << rr_counters, now, iter_order, empty_modules, latest >>
       /\ last_call' = Effect("update_heartbeat", k[1], k[2], now)
  /\ picks' = <<>>
  /\ MgrFrame

mark_quarantined_call ==
  /\ \E k \in Known :
       /\ inner' = mark_quarantined(inner, k[1], k[2])
       /\ UNCHANGED << rr_counters, now, iter_order, empty_modules, latest >>
       /\ last_call' = Effect("mark_quarantined", k[1], k[2], now)
  /\ picks' = <<>>
  /\ MgrFrame

\* Draining is set from outside the manager: a write to the guarded
\* runtime state of an instance of the directory
set_draining ==
  /\ \E k \in Known :
       /\ inner' = [inner EXCEPT ![k[1]][IdPosition(inner[k[1]], k[2])].state = "Draining"]
       /\ UNCHANGED << rr_counters, now, iter_order, empty_modules, latest >>
       /\ last_call' = Effect("set_draining", k[1], k[2], now)
  /\ picks' = <<>>
  /\ MgrFrame

\* deregister, first lock scope: retain under the bucket's lock and note
\* whether the bucket became empty
deregister ==
  /\ empty_modules = NoPending
  /\ \E k \in Known :
       LET m  == k[1]
           id == k[2]
       IN
       /\ IF m \in DOMAIN inner
            THEN /\ inner' = [inner EXCEPT ![m] = RetainOthers(@, id)]
                 /\ empty_modules' =
                      IF RetainOthers(inner[m], id) = <<>>
                        THEN [op |-> "deregister", modules |-> {m}, module |-> m, id |-> id]
                        ELSE NoPending
            ELSE UNCHANGED << inner, empty_modules >>
       /\ UNCHANGED << rr_counters, now, iter_order >>
       /\ latest' = LatestIn(inner')
       /\ last_call' = Effect("deregister", m, id, now)
  /\ picks' = <<>>
  /\ MgrFrame

\* deregister, after the lock is released: `if remove_module { inner.remove;
\* rr_counters.remove }`
deregister_remove ==
  /\ empty_modules.op = "deregister"
  /\ inner' = RemoveKeys(inner, empty_modules.modules)
  /\ rr_counters' = RemoveKeys(rr_counters, empty_modules.modules)
  /\ iter_order' = SelectSeq(iter_order, LAMBDA m : m \notin empty_modules.modules)
  /\ empty_modules' = NoPending
  /\ UNCHANGED now
  /\ latest' = LatestIn(inner')
  /\ last_call' = Effect("deregister_remove", empty_modules.module, empty_modules.id, now)
  /\ picks' = <<>>
  /\ MgrFrame

\* evict_stale(Instant::now()): the iter_mut loop over the buckets
evict_stale ==
  /\ empty_modules = NoPending
  /\ inner' = [m \in DOMAIN inner |-> EvictRetain(inner[m], now, hb_ttl, hb_grace)]
  /\ empty_modules' =
       LET empty == { m \in DOMAIN inner : inner'[m] = <<>> } IN
       IF empty = {} THEN NoPending
       ELSE [op |-> "evict_stale", modules |-> empty, module |-> NoName, id |-> NoName]
  /\ UNCHANGED << rr_counters, now, iter_order >>
  /\ latest' = LatestIn(inner')
  /\ last_call' = Effect("evict_stale", NoName, NoName, now)
  /\ picks' = <<>>
  /\ MgrFrame

\* evict_stale: `for module in empty_modules { inner.remove; rr_counters.remove }`
evict_stale_remove ==
  /\ empty_modules.op = "evict_stale"
  /\ inner' = RemoveKeys(inner, empty_modules.modules)
  /\ rr_counters' = RemoveKeys(rr_counters, empty_modules.modules)
  /\ iter_order' = SelectSeq(iter_order, LAMBDA m : m \notin empty_modules.modules)
  /\ empty_modules' = NoPending
  /\ UNCHANGED now
  /\ latest' = LatestIn(inner')
  /\ last_call' = Effect("evict_stale_remove", NoName, NoName, now)
  /\ picks' = <<>>
  /\ MgrFrame

\* time passes
Tick ==
  /\ now < MaxTime
  /\ now' = now + 1
  /\ UNCHANGED << inner, rr_counters, iter_order, empty_modules, last_call, latest, picks >>
  /\ MgrFrame

\* a pick and what it returned (NoName for None)
Pick(kind, key, m, id) == [kind |-> kind, key |-> key, module |-> m, id |-> id]

\* picks records the picks for one key: the key of the first pick made
\* after the directory changed. Picks for other keys go unrecorded.
Watched(kind, key) ==
  /\ "picks" \in observe
  /\ picks # <<>> => picks[1].kind = kind /\ picks[1].key = key

Picked(pick) == IF Watched(pick.kind, pick.key) THEN Append(picks, pick) ELSE picks

\* a pick that knows no fallback: without a Healthy or Ready instance it
\* returns None
pick_instance_round_robin_strict(modules) ==
  /\ \E m \in modules :
       LET candidates == SelectSeq(instances_of(inner, m), Selectable) IN
       /\ Watched("instance", m) => Len(picks) < MaxPicks
       /\ IF candidates = <<>>
            THEN /\ picks' = Picked(Pick("instance", m, m, NoName))
                 /\ UNCHANGED rr_counters
            ELSE LET r == RoundRobin(rr_counters, m, Len(candidates)) IN
                 /\ rr_counters' = r.rr
                 /\ picks' = Picked(Pick("instance", m, m, candidates[r.idx + 1].instance_id))
  /\ UNCHANGED << inner, now, iter_order, empty_modules, latest >>
  /\ last_call' = Effect("pick_instance_round_robin", NoName, NoName, now)
  /\ MgrFrame

pick_instance_round_robin(modules) ==
  /\ \E m \in modules :
       LET candidates == InstanceCandidates(inner, m) IN
       /\ Watched("instance", m) => Len(picks) < MaxPicks
       /\ IF candidates = <<>>
            THEN /\ picks' = Picked(Pick("instance", m, m, NoName))
                 /\ UNCHANGED rr_counters
            ELSE LET r == RoundRobin(rr_counters, m, Len(candidates)) IN
                 /\ rr_counters' = r.rr
                 /\ picks' = Picked(Pick("instance", m, m, candidates[r.idx + 1].instance_id))
  /\ UNCHANGED << inner, now, iter_order, empty_modules, latest >>
  /\ last_call' = Effect("pick_instance_round_robin", NoName, NoName, now)
  /\ MgrFrame

pick_service_round_robin ==
  /\ \E svc \in ServiceKeys :
       LET candidates == ServiceCandidates(inner, iter_order, svc) IN
       /\ Watched("service", svc) => Len(picks) < MaxPicks
       /\ IF candidates = <<>>
            THEN /\ picks' = Picked(Pick("service", svc, NoName, NoName))
                 /\ UNCHANGED rr_counters
            ELSE LET r == RoundRobin(rr_counters, svc, Len(candidates)) IN
                 /\ rr_counters' = r.rr
                 /\ picks' = Picked(Pick("service", svc, candidates[r.idx + 1][1],
                                                candidates[r.idx + 1][2].instance_id))
  /\ UNCHANGED << inner, now, iter_order, empty_modules, latest >>
  /\ last_call' = Effect("pick_service_round_robin", NoName, NoName, now)
  /\ MgrFrame

(* -------------------- ModuleManager specifications --------------------- *)

\* a ModuleManager built with any heartbeat policy within the bounds
InitManager == InitHost /\ InitHub /\ InitMgr(1..MaxTtl, 0..MaxGrace, {"calls"}) /\ InitSvc

RegisterPlainInstance == register_instance_call(MgrModules, {"v1"}, {{}}, MaxLive)

\* heartbeats, explicit transitions and the eviction sweep as time passes
NextLiveness ==
  \/ RegisterPlainInstance
  \/ mark_ready_call \/ update_heartbeat_call \/ mark_quarantined_call
  \/ evict_stale \/ evict_stale_remove
  \/ Tick

SpecLiveness == InitManager /\ [][NextLiveness]_vars

\* instances that are set Draining, and the eviction sweep as time passes
NextDraining ==
  \/ RegisterPlainInstance
  \/ set_draining
  \/ evict_stale \/ evict_stale_remove
  \/ Tick

SpecDraining == InitManager /\ [][NextDraining]_vars

RegisterVersion == register_instance_call(MgrModules, Versions, {{}}, MaxInstances)

PickInstance == pick_instance_round_robin(MgrModules)

PickInstanceM1 == pick_instance_round_robin({"m1"})

\* registration and deregistration by concurrent callers, with picks that
\* create the selection counters
NextDirectory ==
  \/ RegisterVersion
  \/ deregister \/ deregister_remove
  \/ PickInstance

InitDirectory == InitHost /\ InitHub /\ InitMgr({DefaultTtl}, {DefaultGrace}, {"calls"}) /\ InitSvc

SpecDirectory == InitDirectory /\ [][NextDirectory]_vars

\* the sets of gRPC services an instance offers
ServiceSets == {{}} \cup { {k} : k \in ServiceKeys }

RegisterService == register_instance_call({"m1"}, {"v1"}, ServiceSets, MaxInstances)

\* round-robin selection over instances in any state
NextPick ==
  \/ RegisterService
  \/ mark_ready_call \/ update_heartbeat_call \/ mark_quarantined_call
  \/ PickInstanceM1 \/ pick_service_round_robin

InitPick == InitHost /\ InitHub /\ InitMgr({DefaultTtl}, {DefaultGrace}, {"picks"}) /\ InitSvc

SpecPick == InitPick /\ [][NextPick]_vars

(* -------------------- OperationBuilder and ApiIngress ------------------ *)

\* OperationBuilder values built in one run
MaxOps == 2

\* HTTP methods and route paths (a path is its sequence of characters)
Methods == {"GET", "POST"}
Paths == { <<"/", "a", "/", "b">>, <<"/", "a", "_", "b">>, <<"/", "c">> }

\* method.as_str().to_lowercase()
Lowercase(method) == IF method = "GET" THEN "get" ELSE "post"

\* format!("{}:{}", method.as_str().to_lowercase(),
\*         path_str.replace(['/', '{', '}'], "_"))
HandlerId(method, path) ==
  << Lowercase(method), ":" >>
    \o [k \in 1..Len(path) |-> IF path[k] \in {"/", "{", "}"} THEN "_" ELSE path[k]]

\* OperationBuilder::new(method, path): handler and response Missing
OperationBuilder_new(method, path, no) ==
  [stage |-> "building", method |-> method, path |-> path,
   handler_id |-> HandlerId(method, path),
   has_handler |-> FALSE, handlers_set |-> 0, responses |-> 0, no |-> no]

\* register exists on every OperationBuilder
Sealed_any(b) == b.stage = "building"

\* impl OperationBuilder<Present, Present, S>: the only type with register
Sealed(b) == b.stage = "building" /\ b.has_handler /\ b.responses >= 1

\* the OperationSpec of a builder
SpecOf(b) == [method |-> b.method, path |-> b.path, handler_id |-> b.handler_id,
              no |-> b.no, handlers_set |-> b.handlers_set, responses |-> b.responses]

\* ApiIngress::register_operation: a repeated handler_id or (method, path)
\* is logged and ignored
register_operation(ing, spec) ==
  IF spec.handler_id \in ing.registered_handlers
    THEN [ing EXCEPT !.errors = @ + 1]
  ELSE IF <<spec.method, spec.path>> \in ing.registered_routes
    THEN [ing EXCEPT !.registered_handlers = @ \cup {spec.handler_id},
                     !.errors = @ + 1]
  ELSE [ing EXCEPT !.registered_handlers = @ \cup {spec.handler_id},
                   !.registered_routes = @ \cup {<<spec.method, spec.path>>},
                   !.operation_specs = (<<spec.method, ":", spec.path>> :> spec) @@ @]

\* axum Router::route(path, method_router): panics when the path already
\* has a handler for the method
Router_route(ing, spec) ==
  IF \E k \in 1..Len(ing.routes) :
       ing.routes[k].path = spec.path /\ ing.routes[k].method = spec.method
    THEN [ing EXCEPT !.panicked = TRUE]
    ELSE [ing EXCEPT !.routes = Append(@, spec)]

\* the state no OperationBuilder or ApiIngress step touches
IngressFrame ==
  UNCHANGED << hostVars, hubVars, mgrVars, limiter, shutdown, hub_cfg, backend,
               rest_serve, sync >>

\* OperationBuilder::get(path) / post(path)
builder_new ==
  /\ operation.stage = "none"
  /\ ~ingress.panicked
  /\ ingress.built < MaxOps
  /\ \E method \in Methods, path \in Paths :
       operation' = OperationBuilder_new(method, path, ingress.built + 1)
  /\ ingress' = [ingress EXCEPT !.built = @ + 1]
  /\ UNCHANGED request
  /\ IngressFrame

\* handler(h) / method_router(mr): only on OperationBuilder<Missing, R, S>
builder_handler ==
  /\ operation.stage = "building" /\ ~operation.has_handler
  /\ operation' = [operation EXCEPT !.has_handler = TRUE, !.handlers_set = @ + 1]
  /\ UNCHANGED << ingress, request >>
  /\ IngressFrame

\* response / json_response / ... : the first response makes R Present,
\* further ones are pushed to spec.responses
builder_response ==
  /\ operation.stage = "building" /\ operation.responses < 2
  /\ operation' = [operation EXCEPT !.responses = @ + 1]
  /\ UNCHANGED << ingress, request >>
  /\ IngressFrame

\* the builder is dropped without register
builder_drop ==
  /\ operation.stage = "building"
  /\ operation' = NoOp
  /\ UNCHANGED << ingress, request >>
  /\ IngressFrame

\* OperationBuilder::register(self, router, openapi)
builder_register ==
  /\ Sealed(operation)
  /\ LET spec == SpecOf(operation)
         ing  == [ingress EXCEPT !.registrations = Append(@, spec)]
     IN ingress' = Router_route(register_operation(ing, spec), spec)
  /\ operation' = NoOp
  /\ UNCHANGED request
  /\ IngressFrame

\* axum Router::layer(l): the layer wraps the router built so far, so a
\* layer added later is further out; layers is kept outermost first
Router_layer(layers, l) == << l >> \o layers

\* the layers apply_middleware_stack adds, in the order of its
\* router.layer calls (CORS only when config.cors_enabled)
LayerCalls(cors_enabled) ==
  << "propagate_request_id", "set_request_id", "trace",
     "push_req_id_to_extensions", "timeout", "body_limit" >>
    \o (IF cors_enabled THEN << "cors" >> ELSE <<>>)
    \o << "mime_validation", "rate_limit", "error_mapping", "auth" >>

\* router = router.layer(..) for each layer in turn
RECURSIVE LayerAll(_, _)
LayerAll(layers, calls) ==
  IF calls = <<>> THEN layers
  ELSE LayerAll(Router_layer(layers, Head(calls)), Tail(calls))

\* ApiIngress::apply_middleware_stack(router)
apply_middleware_stack ==
  /\ operation.stage = "none" /\ ~ingress.panicked
  /\ ingress.layers = <<>>
  /\ \E cors_enabled \in BOOLEAN :
       ingress' = [ingress EXCEPT !.layers = LayerAll(<<>>, LayerCalls(cors_enabled))]
  /\ UNCHANGED << operation, request >>
  /\ IngressFrame

\* the layers that can answer a request themselves; CORS answers a
\* preflight request, and only that
Rejecting == {"timeout", "body_limit", "mime_validation", "rate_limit", "auth"}

\* a request reaches the finalized router
request_arrives ==
  /\ ingress.layers # <<>>
  /\ request.kind = "none" \/ request.reply # "none"
  /\ \E kind \in {"preflight", "plain"} :
       request' = [kind |-> kind, seen |-> <<>>, reply |-> "none"]
  /\ UNCHANGED << operation, ingress >>
  /\ IngressFrame

\* the request enters the next layer, which passes it on or answers it
request_enters_layer ==
  /\ request.kind # "none" /\ request.reply = "none"
  /\ Len(request.seen) < Len(ingress.layers)
  /\ LET l == ingress.layers[Len(request.seen) + 1] IN
     \E answers \in BOOLEAN :
       /\ answers => \/ l \in Rejecting /\ request.kind = "plain"
                     \/ l = "cors"
       /\ (l = "cors" /\ request.kind = "preflight") => answers
       /\ (l = "cors" /\ request.kind = "plain") => ~answers
       /\ request' = [request EXCEPT !.seen = Append(@, l),
                                      !.reply = IF answers THEN l ELSE "none"]
  /\ UNCHANGED << operation, ingress >>
  /\ IngressFrame

\* the request has passed every layer and the handler answers
request_handled ==
  /\ request.kind # "none" /\ request.reply = "none"
  /\ Len(request.seen) = Len(ingress.layers)
  /\ request' = [request EXCEPT !.reply = "handler"]
  /\ UNCHANGED << operation, ingress >>
  /\ IngressFrame

NextApi ==
  \/ builder_new \/ builder_handler \/ builder_response \/ builder_drop
  \/ builder_register
  \/ apply_middleware_stack
  \/ request_arrives \/ request_enters_layer \/ request_handled

SpecApi == Init /\ [][NextApi]_vars

\* register_operation calls made directly on the OpenApiRegistry
MaxCalls == 3

\* the handler ids OperationBuilder::new can produce
HandlerIds == { HandlerId(method, path) : method \in Methods, path \in Paths }

\* openapi.register_operation(&spec) with a spec of the caller's making:
\* OperationSpec's fields are public
register_operation_call ==
  /\ Len(ingress.registrations) < MaxCalls
  /\ \E method \in Methods, path \in Paths, handler_id \in HandlerIds :
       LET spec == [method |-> method, path |-> path, handler_id |-> handler_id,
                    no |-> ingress.built + 1, handlers_set |-> 1, responses |-> 1]
           ing  == [ingress EXCEPT !.built = @ + 1, !.registrations = Append(@, spec)]
       IN ingress' = register_operation(ing, spec)
  /\ UNCHANGED << operation, request >>
  /\ IngressFrame

NextOpenApi == register_operation_call

SpecOpenApi == Init /\ [][NextOpenApi]_vars

(* ------------------------------ shutdown ------------------------------- *)

\* the clock of the stop phase advances in steps; a stop-timeout is
\* StopTimeout steps, and a stop is followed for MaxStopTime steps
StopTimeout == 1
MaxStopTime == StopTimeout + 1

\* module types declared with lifecycle(..): the macro registers
\* WithLifecycle::from_arc(module).with_stop_timeout(..) for them; the
\* other stateful types implement StatefulModule themselves
LifecycleTypes == {4, 5}

ShutdownFrame ==
  UNCHANGED << hubVars, mgrVars, operation, ingress, request, limiter,
               hub_cfg, backend, rest_serve, sync >>

\* the signal arrives, the external token is cancelled or the external
\* future completes; the runtime's token is a clone of the external token
\* in Token mode, and clones share their state
external_trigger ==
  /\ shutdown.mode \in Modes /\ ~shutdown.fired
  /\ pc \notin {"done", "failed"}
  /\ shutdown' = [shutdown EXCEPT !.fired = TRUE,
                     !.cancelled_in = IF shutdown.mode = "Token" THEN pc ELSE @]
  /\ cancel' = IF shutdown.mode = "Token" THEN TRUE ELSE cancel
  /\ UNCHANGED << builder, nregs, pc, registry, err, idx, inflight, log, all_installers, store >>
  /\ ShutdownFrame

\* shutdown::wait_for_shutdown() returns Err: the waiter falls back to
\* tokio::signal::ctrl_c()
wait_for_shutdown_err ==
  /\ shutdown.mode = "Signals" /\ shutdown.waiter = "wait_for_shutdown"
  /\ ~shutdown.fired
  /\ shutdown' = [shutdown EXCEPT !.waiter = "ctrl_c"]
  /\ UNCHANGED hostVars
  /\ ShutdownFrame

\* the spawned waiter is past its await and calls c.cancel(); the result
\* of ctrl_c().await is dropped, so its error cancels as well
waiter_cancel ==
  /\ shutdown.mode \in {"Signals", "Future"}
  /\ shutdown.waiter \in {"wait_for_shutdown", "ctrl_c", "waiter"}
  /\ shutdown.fired \/ shutdown.waiter = "ctrl_c"
  /\ shutdown' = [shutdown EXCEPT !.waiter = "done", !.cancelled_in = pc]
  /\ cancel' = TRUE
  /\ UNCHANGED << builder, nregs, pc, registry, err, idx, inflight, log, all_installers, store >>
  /\ ShutdownFrame

\* the module whose stop the host awaits is registered through WithLifecycle
StopBounded(m) ==
  \E i \in 1..Len(registry.modules) :
    registry.modules[i].name = m /\ registry.modules[i].core.type \in LifecycleTypes

\* time passes while the host awaits s.stop(cancel): WithLifecycle::stop
\* returns when stop_timeout has elapsed at the latest, another stop has
\* no deadline
stop_time_passes ==
  /\ pc = "stop"
  /\ \E m \in Names :
       /\ << "stop", m >> \in inflight
       /\ shutdown.spent[m] < (IF StopBounded(m) THEN StopTimeout ELSE MaxStopTime)
       /\ shutdown' = [shutdown EXCEPT !.spent[m] = @ + 1]
  /\ UNCHANGED hostVars
  /\ ShutdownFrame

\* the stop in flight is the stop of a WithLifecycle wrapper, which returns
lifecycle_stop_ret ==
  /\ \E m \in Names : << "stop", m >> \in inflight /\ StopBounded(m)
  /\ run_stop_phase_ret

\* the stop in flight is the module's own StatefulModule::stop
own_stop_ret ==
  /\ \E m \in Names : << "stop", m >> \in inflight /\ ~StopBounded(m)
  /\ run_stop_phase_ret

\* module types of a run that reaches the stop phase with stateful modules
\* of both kinds: grpc_hub and a module with capabilities = [stateful]
ShutdownTypes == {5, 8}

MaxStateful == 2

RegisterStateful ==
  /\ nregs < MaxStateful
  /\ RunRegistrator(DepLists(0), ShutdownTypes)

NextShutdown ==
  \/ RegisterStateful
  \/ discover_and_build
  \/ wire_system_call \/ wire_system_ret \/ wire_system_end
  \/ run_db_phase_call \/ run_db_phase_end
  \/ run_init_phase_call \/ run_init_phase_ret \/ run_init_phase_end
  \/ run_rest_phase_begin
  \/ run_grpc_phase_nohub \/ run_grpc_phase_set
  \/ run_start_phase_call \/ run_start_phase_ret \/ run_start_phase_end
  \/ external_trigger \/ wait_for_shutdown_err \/ waiter_cancel
  \/ wait_cancelled
  \/ run_stop_phase_call \/ stop_time_passes
  \/ lifecycle_stop_ret \/ own_stop_ret
  \/ run_stop_phase_end

InitShutdown ==
  /\ InitHost /\ InitHub /\ InitMgr({DefaultTtl}, {DefaultGrace}, {})
  /\ InitSvcWith({ ShutdownOf(mode) : mode \in Modes })

SpecShutdown == InitShutdown /\ [][NextShutdown]_vars

\* the runtime schedules the host task and the spawned waiter, and a
\* WithLifecycle stop returns; nothing makes a module's own stop return
SpecShutdownFair ==
  /\ SpecShutdown
  /\ WF_vars(waiter_cancel)
  /\ WF_vars(wait_cancelled)
  /\ WF_vars(run_stop_phase_call)
  /\ WF_vars(lifecycle_stop_ret)
  /\ WF_vars(run_stop_phase_end)

(* --------------------------- rate limiting ---------------------------- *)

MaxRps == 2
MaxBurst == 2
MaxInFlight == 1
MaxNow == 2
MaxAsked == 3

\* the clock advances in steps of 1/TicksPerSec seconds, and tokens are
\* counted in units of 1/TicksPerSec token, so that elapsed * refill_per_sec
\* is a whole number of units
TicksPerSec == 2

Max2(a, b) == IF a >= b THEN a ELSE b
Min2(a, b) == IF a <= b THEN a ELSE b

\* TokenBucket::new(rps, burst) at instant now
TokenBucket_new(rps, burst, instant) ==
  LET cap == Max2(Max2(burst, rps), 1) IN
  [capacity |-> cap, tokens |-> cap * TicksPerSec,
   refill_per_sec |-> Max2(rps, 1), last |-> instant]

\* TokenBucket::allow_now at an instant: the bucket after the call and
\* the value returned
allow_now(b, instant) ==
  LET elapsed == instant - b.last
      tokens  == Min2(b.tokens + elapsed * b.refill_per_sec,
                      b.capacity * TicksPerSec)
  IN IF tokens >= TicksPerSec
     THEN [bucket |-> [b EXCEPT !.last = instant, !.tokens = tokens - TicksPerSec],
           allowed |-> TRUE]
     ELSE [bucket |-> [b EXCEPT !.last = instant, !.tokens = tokens],
           allowed |-> FALSE]

LimiterFrame ==
  UNCHANGED << hostVars, hubVars, mgrVars, operation, ingress, request,
               shutdown, hub_cfg, backend, rest_serve, sync >>

\* RateLimiterMap::from_specs for one operation with rate limit
\* (rps, burst, in_flight)
from_specs ==
  /\ ~limiter.made
  /\ \E rps \in 0..MaxRps, burst \in 0..MaxBurst, in_flight \in 0..MaxInFlight :
       limiter' = [made |-> TRUE, rps |-> rps, burst |-> burst,
                   in_flight |-> in_flight,
                   bucket |-> TokenBucket_new(rps, burst, 0),
                   permits |-> in_flight, now |-> 0,
                   asked |-> 0, admitted |-> 0, handled |-> 0,
                   running |-> 0, found |-> in_flight,
                   reply |-> "none"]
  /\ LimiterFrame

\* the semaphore hands out a permit whether or not one is left
try_acquire_owned_any(permits) == [ok |-> TRUE, permits |-> permits - 1]

\* sem.clone().try_acquire_owned(): the result and the permits left
try_acquire_owned(permits) ==
  IF permits > 0 THEN [ok |-> TRUE, permits |-> permits - 1]
  ELSE [ok |-> FALSE, permits |-> permits]

\* rate_limit_middleware for a request of that operation; found is the
\* number of permits the request found, running the number of requests
\* inside next.run(req)
rate_limit_middleware ==
  /\ limiter.made /\ limiter.asked < MaxAsked
  /\ LET r == allow_now(limiter.bucket, limiter.now)
         a == try_acquire_owned(limiter.permits)
     IN limiter' =
       IF ~r.allowed
       THEN [limiter EXCEPT !.bucket = r.bucket, !.asked = @ + 1,
                            !.found = limiter.permits, !.reply = "429"]
       ELSE IF ~a.ok
       THEN [limiter EXCEPT !.bucket = r.bucket, !.asked = @ + 1,
                            !.admitted = @ + 1,
                            !.found = limiter.permits, !.reply = "503"]
       ELSE [limiter EXCEPT !.bucket = r.bucket, !.asked = @ + 1,
                            !.admitted = @ + 1, !.handled = @ + 1,
                            !.permits = a.permits, !.running = @ + 1,
                            !.found = limiter.permits, !.reply = "handler"]
  /\ LimiterFrame

\* next.run(req).await of a handled request completes, or its future is
\* dropped: _permit goes out of scope and the permit returns
permit_dropped ==
  /\ limiter.made /\ limiter.running > 0
  /\ limiter' = [limiter EXCEPT !.permits = @ + 1, !.running = @ - 1]
  /\ LimiterFrame

\* 1/TicksPerSec seconds pass; the counts of the requests made at one
\* instant start again
clock_tick ==
  /\ limiter.made /\ limiter.now < MaxNow
  /\ limiter' = [limiter EXCEPT !.now = @ + 1, !.asked = 0, !.admitted = 0,
                                !.handled = 0, !.reply = "none"]
  /\ LimiterFrame

NextLimiter ==
  \/ from_specs \/ rate_limit_middleware \/ permit_dropped \/ clock_tick

SpecLimiter == Init /\ [][NextLimiter]_vars

\* a request inside next.run(req) completes: the handler returns or the
\* timeout layer ends it
SpecLimiterFair == SpecLimiter /\ WF_vars(permit_dropped)

(* ------------------------- GrpcHub: listen_addr ------------------------ *)

\* the target platforms: cfg(unix), cfg(windows), and neither
Platforms == {"unix", "windows", "other"}

\* strings are sequences of pieces; a scheme prefix, an IP literal, the
\* colon and a port are one piece each
IpLiterals == {"127.0.0.1", "[::1]"}
Ports == {"50051"}

\* the values of the "listen_addr" key of the module's config: absent, not
\* a string, or a string
ListenAddrs ==
  { [kind |-> "absent", s |-> <<>>], [kind |-> "number", s |-> <<>>] }
    \cup { [kind |-> "string", s |-> str] :
             str \in { << "pipe://", "hub" >>, << "npipe://", "hub" >>,
                       << "uds://", "/tmp/hub.sock" >>,
                       << "127.0.0.1", ":", "50051" >>,
                       << "[::1]", ":", "50051" >>,
                       << "localhost", ":", "50051" >>,
                       << "127.0.0.1", ":", "99999" >>,
                       << "127.0.0.1" >>, << "hub" >>, <<>> } }

\* s.strip_prefix(prefix): the rest of s, or None
None == << "None" >>
strip_prefix(str, prefix) ==
  IF str # <<>> /\ Head(str) = prefix THEN Tail(str) ELSE None

\* s.starts_with(prefix)
starts_with(str, prefix) == strip_prefix(str, prefix) # None

\* s.parse::<SocketAddr>(): an IP literal, a colon and a port
parse_SocketAddr(str) ==
  IF Len(str) = 3 /\ str[1] \in IpLiterals /\ str[2] = ":" /\ str[3] \in Ports
    THEN [ok |-> TRUE, addr |-> str]
    ELSE [ok |-> FALSE, addr |-> <<>>]

Tcp(addr) == [transport |-> "tcp", at |-> addr]
Uds(path) == [transport |-> "uds", at |-> path]
NamedPipe(name) == [transport |-> "named_pipe", at |-> name]

\* no server is listening
NotServing == [transport |-> "none", at |-> <<>>]

\* DEFAULT_LISTEN_ADDR
DefaultListen == Tcp(<< "0.0.0.0", ":", "50051" >>)

\* GrpcHub::init(ctx) on platform p with listen_cfg cfg and
\* ctx.raw_config().get("listen_addr") = v: the result and the listen_cfg
\* it leaves
GrpcHub_init(p, cfg, v) ==
  LET Ok(c) == [ok |-> TRUE, listen_cfg |-> c]
      Bail  == [ok |-> FALSE, listen_cfg |-> cfg]
      pipe  == IF strip_prefix(v.s, "pipe://") # None
                 THEN strip_prefix(v.s, "pipe://")
                 ELSE strip_prefix(v.s, "npipe://")
  IN IF v.kind = "absent" THEN Ok(cfg)
     ELSE IF v.kind # "string" THEN Ok(cfg)
     ELSE IF p = "windows" /\ pipe # None THEN Ok(NamedPipe(pipe))
     ELSE IF p # "windows" /\ (starts_with(v.s, "pipe://") \/ starts_with(v.s, "npipe://"))
       THEN Ok(cfg)
     ELSE IF strip_prefix(v.s, "uds://") # None
       THEN IF p = "unix" THEN Ok(Uds(strip_prefix(v.s, "uds://"))) ELSE Bail
     ELSE IF parse_SocketAddr(v.s).ok THEN Ok(Tcp(parse_SocketAddr(v.s).addr))
     ELSE Bail

HubCfgFrame ==
  UNCHANGED << hostVars, hubVars, mgrVars, operation, ingress, request,
               limiter, shutdown, backend, rest_serve, sync >>

\* GrpcHub::default() on one of the platforms
GrpcHub_default ==
  /\ ~hub_cfg.made
  /\ \E p \in Platforms :
       hub_cfg' = [made |-> TRUE, platform |-> p, listen_cfg |-> DefaultListen,
                   value |-> [kind |-> "absent", s |-> <<>>],
                   init |-> "none", serving |-> NotServing]
  /\ HubCfgFrame

\* GrpcHub::set_listen_addr_tcp(addr), before the host runs init
set_listen_addr_tcp ==
  /\ hub_cfg.made /\ hub_cfg.init = "none"
  /\ \E ip \in IpLiterals, port \in Ports :
       hub_cfg' = [hub_cfg EXCEPT !.listen_cfg = Tcp(<< ip, ":", port >>)]
  /\ HubCfgFrame

\* the init phase calls GrpcHub::init
hub_init ==
  /\ hub_cfg.made /\ hub_cfg.init = "none"
  /\ \E v \in ListenAddrs :
       LET r == GrpcHub_init(hub_cfg.platform, hub_cfg.listen_cfg, v) IN
       hub_cfg' = [hub_cfg EXCEPT !.value = v,
                                  !.init = IF r.ok THEN "ok" ELSE "err",
                                  !.listen_cfg = r.listen_cfg]
  /\ HubCfgFrame

\* init returned Ok, the host reaches the start phase and
\* run_with_installers serves on listen_cfg
hub_listen ==
  /\ hub_cfg.made /\ hub_cfg.init = "ok" /\ hub_cfg.serving = NotServing
  /\ hub_cfg' = [hub_cfg EXCEPT !.serving = hub_cfg.listen_cfg]
  /\ HubCfgFrame

\* the cancellation token fires and the server shuts down
hub_shutdown ==
  /\ hub_cfg.made /\ hub_cfg.serving # NotServing
  /\ hub_cfg.init = "ok"
  /\ hub_cfg' = [hub_cfg EXCEPT !.init = "stopped"]
  /\ HubCfgFrame

NextHubInit ==
  \/ GrpcHub_default \/ set_listen_addr_tcp \/ hub_init \/ hub_listen
  \/ hub_shutdown

SpecHubInit == Init /\ [][NextHubInit]_vars

(* -------------------------- LocalProcessBackend ------------------------ *)

MaxSpawns == 2

\* the modules the backend is asked to spawn
OopModules == {"m1", "m2"}

\* an instance_id no spawn_instance has returned
Nonexistent == 0

\* InstanceHandle; instance ids are numbered in the order of Uuid::now_v7()
Handle(module, id) == [module |-> module, instance_id |-> id]

\* no stop_instance call is between its lock scope and child.kill(); no
\* stop_instance call has returned
NoStop == [stage |-> "none"]

\* the first block of stop_instance leaves the map unchanged
instances_remove_none(instances, id) == instances

\* instances.remove(&handle.instance_id): the map after the removal
instances_remove(instances, id) ==
  { inst \in instances : inst.handle.instance_id # id }

\* LocalProcessBackend::list_instances(module)
list_instances(instances, module) ==
  { inst.handle : inst \in { i \in instances : i.handle.module = module } }

BackendFrame ==
  UNCHANGED << hostVars, hubVars, mgrVars, operation, ingress, request,
               limiter, shutdown, hub_cfg, rest_serve, sync >>

\* LocalProcessBackend::new()
LocalProcessBackend_new ==
  /\ ~backend.made
  /\ backend' = [made |-> TRUE, instances |-> {}, spawned |-> 0, issued |-> {},
                 child |-> [id \in 1..MaxSpawns |-> "none"],
                 stop |-> NoStop, stopped |-> NoStop]
  /\ BackendFrame

\* LocalProcessBackend::spawn_instance(cfg): a wrong backend kind, a
\* missing binary and a failed spawn return Err and store nothing
spawn_instance ==
  /\ backend.made /\ backend.spawned < MaxSpawns
  /\ \E module \in OopModules, kind \in {"LocalProcess", "K8s"},
        binary \in BOOLEAN, spawns \in BOOLEAN :
       IF kind = "LocalProcess" /\ binary /\ spawns
       THEN LET id == backend.spawned + 1 IN
            backend' = [backend EXCEPT
              !.spawned = id,
              !.child[id] = "running",
              !.issued = @ \cup {Handle(module, id)},
              !.instances = @ \cup {[handle |-> Handle(module, id)]}]
       ELSE UNCHANGED backend
  /\ BackendFrame

\* a child process exits by itself
child_exits ==
  /\ backend.made
  /\ \E id \in 1..MaxSpawns :
       /\ backend.child[id] = "running"
       /\ backend' = [backend EXCEPT !.child[id] = "exited"]
  /\ BackendFrame

\* stop_instance(handle), first block: the instance is taken out of the
\* map under the write lock
stop_instance_take ==
  /\ backend.made /\ backend.stop = NoStop
  /\ \E handle \in backend.issued \cup {Handle(m, Nonexistent) : m \in OopModules} :
       LET id == handle.instance_id IN
       backend' = [backend EXCEPT
         !.instances = instances_remove(@, id),
         !.stop = [stage |-> "taken", handle |-> handle,
                   local |-> (\E inst \in backend.instances : inst.handle.instance_id = id),
                   before |-> backend.instances,
                   after |-> instances_remove(backend.instances, id)]]
  /\ BackendFrame

\* stop_instance, second block: local.child.kill().await, whose error is
\* logged, and Ok(()) is returned
stop_instance_kill ==
  /\ backend.made /\ backend.stop # NoStop
  /\ LET id    == backend.stop.handle.instance_id
         child == IF backend.stop.local /\ backend.child[id] = "running"
                    THEN [backend.child EXCEPT ![id] = "killed"]
                    ELSE backend.child
     IN backend' = [backend EXCEPT
          !.child = child,
          !.stop = NoStop,
          !.stopped = [stage |-> "returned Ok", handle |-> backend.stop.handle,
                       local |-> backend.stop.local,
                       before |-> backend.stop.before,
                       after |-> backend.stop.after,
                       killed |-> { i \in 1..MaxSpawns : child[i] # backend.child[i] }]]
  /\ BackendFrame

NextBackend ==
  \/ LocalProcessBackend_new \/ spawn_instance \/ child_exits
  \/ stop_instance_take \/ stop_instance_kill

SpecBackend == Init /\ [][NextBackend]_vars

(* --------------------------- ApiIngress::serve ------------------------- *)

ServeFrame ==
  UNCHANGED << hostVars, hubVars, mgrVars, operation, ingress, request,
               limiter, shutdown, hub_cfg, backend, sync >>

\* the values of cfg.bind_addr
BindAddrs ==
  { << "127.0.0.1", ":", "50051" >>, << "[::1]", ":", "50051" >>,
    << "localhost", ":", "50051" >>, << "127.0.0.1", ":", "99999" >>, <<>> }

\* WithLifecycle::start(cancel) of the gated wrapper spawns the runnable
\* serve(cancel, ready) and waits. final_router: the REST phase has left a
\* router in self.final_router
lifecycle_start ==
  /\ rest_serve.pc = "idle"
  /\ \E bind_addr \in BindAddrs, final_router \in BOOLEAN, cancelled \in BOOLEAN :
       rest_serve' = [pc |-> "parse", bind_addr |-> bind_addr,
                      final_router |-> final_router, addr |-> <<>>,
                      router |-> "none", listener |-> "none", ready |-> FALSE,
                      result |-> "none", failed_at |-> "none",
                      start |-> "pending", cancelled |-> cancelled]
  /\ ServeFrame

\* the token is cancelled while serve runs
serve_cancel ==
  /\ rest_serve.pc \notin {"idle", "returned"}
  /\ ~rest_serve.cancelled
  /\ rest_serve' = [rest_serve EXCEPT !.cancelled = TRUE]
  /\ ServeFrame

\* serve returns Err from its step `step`
serve_err(step) ==
  [rest_serve EXCEPT !.pc = "returned", !.result = "err", !.failed_at = step]

\* cfg.bind_addr.parse().map_err(..)?
serve_parse ==
  /\ rest_serve.pc = "parse"
  /\ LET r == parse_SocketAddr(rest_serve.bind_addr) IN
       rest_serve' = IF r.ok THEN [rest_serve EXCEPT !.pc = "router", !.addr = r.addr]
                     ELSE serve_err("parse")
  /\ ServeFrame

\* self.final_router.lock().take(), or self.build_router().await? when it
\* holds none; build_router fails when apply_middleware_stack does
serve_router ==
  /\ rest_serve.pc = "router"
  /\ IF rest_serve.final_router
       THEN rest_serve' = [rest_serve EXCEPT !.pc = "bind", !.router = "final",
                                             !.final_router = FALSE]
       ELSE \E built \in BOOLEAN :
              rest_serve' = IF built THEN [rest_serve EXCEPT !.pc = "bind", !.router = "default"]
                            ELSE serve_err("router")
  /\ ServeFrame

\* the bind is taken to have succeeded whatever it returned
serve_bind_unchecked ==
  /\ rest_serve.pc = "bind"
  /\ \E bound \in BOOLEAN :
       rest_serve' = [rest_serve EXCEPT !.pc = "notify",
                                        !.listener = IF bound THEN "bound" ELSE "none"]
  /\ ServeFrame

\* tokio::net::TcpListener::bind(addr).await?
serve_bind ==
  /\ rest_serve.pc = "bind"
  /\ \E bound \in BOOLEAN :
       rest_serve' = IF bound THEN [rest_serve EXCEPT !.pc = "notify", !.listener = "bound"]
                     ELSE serve_err("bind")
  /\ ServeFrame

\* ready.notify()
serve_notify ==
  /\ rest_serve.pc = "notify"
  /\ rest_serve' = [rest_serve EXCEPT !.pc = "serving", !.ready = TRUE]
  /\ ServeFrame

\* axum::serve(listener, router).with_graceful_shutdown(shutdown).await
\* returns: after the cancellation, or with an error of the server
serve_returns ==
  /\ rest_serve.pc = "serving"
  /\ \E res \in Results :
       /\ res = "ok" => rest_serve.cancelled
       /\ rest_serve' = [rest_serve EXCEPT !.pc = "returned", !.result = res,
                           !.listener = "closed",
                           !.failed_at = IF res = "err" THEN "serve" ELSE "none"]
  /\ ServeFrame

\* the gated start returns to the host: Ok once the runnable has notified
\* the signal, the runnable's error when it has returned without notifying
lifecycle_start_returns ==
  /\ rest_serve.pc # "idle"
  /\ rest_serve.start = "pending"
  /\ \/ rest_serve.ready /\ rest_serve' = [rest_serve EXCEPT !.start = "ok"]
     \/ /\ ~rest_serve.ready /\ rest_serve.pc = "returned"
        /\ rest_serve' = [rest_serve EXCEPT !.start = "err"]
  /\ ServeFrame

NextServe ==
  \/ lifecycle_start \/ serve_cancel
  \/ serve_parse \/ serve_router \/ serve_bind \/ serve_notify \/ serve_returns
  \/ lifecycle_start_returns

SpecServe == Init /\ [][NextServe]_vars

(* ----------------------- ModuleManager: the locks ---------------------- *)

SyncFrame ==
  UNCHANGED << hostVars, hubVars, mgrVars, operation, ingress, request,
               limiter, shutdown, hub_cfg, backend, rest_serve >>

\* calls a thread makes, one after the other
MaxThreadCalls == 1

\* the threads that call into one ModuleManager
LockThreads == {"t1", "t2"}

\* module names and service names the calls use
LockModules == {"m1", "m2"}
LockServices == {"s1"}

\* the shards of a DashMap, in the order its iterators visit them
ShardIds == {1, 2}

\* where the hash puts the keys: the modules in the shards of `inner`, the
\* counter keys in the shards of `rr_counters`
InnerLayouts == { [m \in LockModules |-> 1],
                  [m \in LockModules |-> IF m = "m1" THEN 1 ELSE 2] }
CounterLayouts == { [k \in LockModules \cup LockServices |-> 1],
                    [k \in LockModules \cup LockServices |-> IF k = "m1" THEN 1 ELSE 2] }

\* the locks: a shard of inner, the RwLock of an instance of module m, a
\* shard of rr_counters
InnerLock(m) == << "inner", sync.shard_of[m] >>
ShardLock(n) == << "inner", n >>
InstanceLock(m) == << "instance", m >>
CounterLock(k) == << "rr_counters", sync.rr_of[k] >>
LockIds ==
  { << "inner", n >> : n \in ShardIds } \cup { << "instance", m >> : m \in LockModules }
    \cup { << "rr_counters", n >> : n \in ShardIds }

Acq(l, mode) == [do |-> "acquire", lock |-> l, mode |-> mode]
Rel(l, mode) == [do |-> "release", lock |-> l, mode |-> mode]

\* inner.entry(module).or_default(): the shard's write lock, held to the
\* end of register_instance
register_instance_locks(m) == { << Acq(InnerLock(m), "W"), Rel(InnerLock(m), "W") >> }

\* mark_ready, update_heartbeat, mark_quarantined: inner.get_mut(module),
\* and inst.inner.write() when the instance is found
state_write_locks(m) ==
  { << Acq(InnerLock(m), "W"), Rel(InnerLock(m), "W") >>,
    << Acq(InnerLock(m), "W"), Acq(InstanceLock(m), "W"),
       Rel(InstanceLock(m), "W"), Rel(InnerLock(m), "W") >> }

\* inner.remove(&module); rr_counters.remove(&module.to_string())
remove_locks(m) ==
  << Acq(InnerLock(m), "W"), Rel(InnerLock(m), "W"),
     Acq(CounterLock(m), "W"), Rel(CounterLock(m), "W") >>

\* deregister: get_mut in a scope of its own, then the removals when the
\* bucket was left empty
deregister_locks(m) ==
  { << Acq(InnerLock(m), "W"), Rel(InnerLock(m), "W") >>,
    << Acq(InnerLock(m), "W"), Rel(InnerLock(m), "W") >> \o remove_locks(m) }

\* inst.state(): the read lock for the length of the call
state_locks(m) == << Acq(InstanceLock(m), "R"), Rel(InstanceLock(m), "R") >>

\* the write is attempted with the read guard still alive
quarantine_locks_upgrade(m) ==
  << Acq(InstanceLock(m), "R"), Acq(InstanceLock(m), "W"),
     Rel(InstanceLock(m), "W"), Rel(InstanceLock(m), "R") >>

\* evict_stale's closure on an instance past its ttl: read, drop(state),
\* then inst.inner.write()
quarantine_locks(m) ==
  << Acq(InstanceLock(m), "R"), Rel(InstanceLock(m), "R"),
     Acq(InstanceLock(m), "W"), Rel(InstanceLock(m), "W") >>

\* rr_counters.entry(key).or_insert(0), held to the end of the pick
counter_locks(k) == << Acq(CounterLock(k), "W"), Rel(CounterLock(k), "W") >>

\* pick_instance_round_robin: inner.get(module) is held to the end; with a
\* non-empty bucket the states are read and the counter is taken
pick_instance_locks(m) ==
  { << Acq(InnerLock(m), "R"), Rel(InnerLock(m), "R") >>,
    << Acq(InnerLock(m), "R") >> \o state_locks(m)
      \o counter_locks(m) \o << Rel(InnerLock(m), "R") >> }

\* inner.iter() / inner.iter_mut(): one shard after the other; the guard of
\* a shard is let go before the next shard's lock is taken, or after it
\* (sync.hand, as the DashMap of the build does it); b1 and b2 are what is
\* done on the entries of the two shards
Sweep(mode, b1, b2) ==
  << Acq(ShardLock(1), mode) >> \o b1
    \o (IF sync.hand THEN << Acq(ShardLock(2), mode), Rel(ShardLock(1), mode) >>
                ELSE << Rel(ShardLock(1), mode), Acq(ShardLock(2), mode) >>)
    \o b2 \o << Rel(ShardLock(2), mode) >>

\* what evict_stale finds for a module: no bucket, an instance it keeps,
\* one it quarantines, or a bucket it leaves empty
Outcomes == {"absent", "keep", "quarantine", "evict"}

EvictVisit(n, m, o) ==
  IF sync.shard_of[m] # n \/ o[m] = "absent" THEN <<>>
  ELSE IF o[m] = "quarantine" THEN quarantine_locks(m)
  ELSE state_locks(m)

evict_stale_locks ==
  { Sweep("W", EvictVisit(1, "m1", o) \o EvictVisit(1, "m2", o),
               EvictVisit(2, "m1", o) \o EvictVisit(2, "m2", o))
      \o (IF o["m1"] = "evict" THEN remove_locks("m1") ELSE <<>>)
      \o (IF o["m2"] = "evict" THEN remove_locks("m2") ELSE <<>>)
    : o \in [LockModules -> Outcomes] }

ServiceVisit(n, m, V) == IF sync.shard_of[m] = n /\ m \in V THEN state_locks(m) ELSE <<>>

\* pick_service_round_robin: the states of the instances offering the
\* service (those of the modules in V) are read during the iteration; the
\* counter is taken after it when there are candidates
pick_service_locks(k) ==
  { Sweep("R", ServiceVisit(1, "m1", V) \o ServiceVisit(1, "m2", V),
               ServiceVisit(2, "m1", V) \o ServiceVisit(2, "m2", V))
      \o (IF candidates THEN counter_locks(k) ELSE <<>>)
    : V \in SUBSET LockModules, candidates \in BOOLEAN }

\* ModuleManager::new(), with the placement of the keys
ModuleManager_new ==
  /\ ~sync.made
  /\ \E shard_of \in InnerLayouts, rr_of \in CounterLayouts, hand \in BOOLEAN :
       sync' = [made |-> TRUE, shard_of |-> shard_of, rr_of |-> rr_of, hand |-> hand,
                held |-> [l \in LockIds |-> {}],
                prog |-> [t \in LockThreads |-> <<>>],
                calls |-> [t \in LockThreads |-> 0]]
  /\ SyncFrame

\* thread t enters a call that takes the locks of program p
Enter(t, p) ==
  /\ sync.prog[t] = <<>> /\ sync.calls[t] < MaxThreadCalls
  /\ sync' = [sync EXCEPT !.prog[t] = p, !.calls[t] = @ + 1]
  /\ SyncFrame

register_instance_enter ==
  /\ sync.made
  /\ \E t \in LockThreads, m \in LockModules : \E p \in register_instance_locks(m) : Enter(t, p)

state_write_enter ==
  /\ sync.made
  /\ \E t \in LockThreads, m \in LockModules : \E p \in state_write_locks(m) : Enter(t, p)

deregister_enter ==
  /\ sync.made
  /\ \E t \in LockThreads, m \in LockModules : \E p \in deregister_locks(m) : Enter(t, p)

evict_stale_enter ==
  /\ sync.made
  /\ \E t \in LockThreads : \E p \in evict_stale_locks : Enter(t, p)

pick_instance_enter ==
  /\ sync.made
  /\ \E t \in LockThreads, m \in LockModules : \E p \in pick_instance_locks(m) : Enter(t, p)

pick_service_enter ==
  /\ sync.made
  /\ \E t \in LockThreads, k \in LockServices : \E p \in pick_service_locks(k) : Enter(t, p)

\* a RwLock grants a write lock when nobody holds it and a read lock when
\* no writer holds it
CanAcquire(i) ==
  IF i.mode = "W" THEN sync.held[i.lock] = {}
  ELSE ~\E h \in sync.held[i.lock] : h[2] = "W"

\* thread t takes the lock it waits for, or lets a lock go
lock_step(t) ==
  /\ sync.made
  /\ sync.prog[t] # <<>>
  /\ LET i == Head(sync.prog[t]) IN
     /\ i.do = "acquire" => CanAcquire(i)
     /\ sync' = [sync EXCEPT
          !.prog[t] = Tail(@),
          !.held[i.lock] = IF i.do = "acquire" THEN @ \cup {<< t, i.mode >>}
                           ELSE @ \ {<< t, i.mode >>}]
  /\ SyncFrame

thread_runs == \E t \in LockThreads : lock_step(t)

NextSync ==
  \/ ModuleManager_new
  \/ register_instance_enter \/ state_write_enter \/ deregister_enter
  \/ evict_stale_enter \/ pick_instance_enter \/ pick_service_enter
  \/ thread_runs

SpecSync == Init /\ [][NextSync]_vars

\* the scheduler runs every thread that can take a step
SpecSyncFair == SpecSync /\ \A t \in LockThreads : WF_vars(lock_step(t))

(* ------------------------ observations on a run ----------------------- *)

\* run has left discovery: build_topo_sorted has returned
Built == pc # "discover"

ModuleNames == [i \in 1..Len(registry.modules) |-> registry.modules[i].name]

\* position of module m in the emitted topo order
TopoPos(m) == Position(ModuleNames, m)

EntryByName(m) == registry.modules[TopoPos(m)]

\* modules whose hook `hook` was invoked, in invocation order
CallsOf(hook) ==
  LET c == SelectSeq(log, LAMBDA e : e.hook = hook /\ e.ev = "call")
  IN [i \in 1..Len(c) |-> c[i].module]

IsReturn(e) == e.ev \in {"ok", "err"}

\* the phase of run_full_cycle a hook belongs to (7 is the wait)
PhaseOf(hook) ==
  CASE hook = "wire_system" -> 1
    [] hook = "migrate" -> 2
    [] hook = "init" -> 3
    [] hook \in {"rest_prepare", "register_rest", "rest_finalize"} -> 4
    [] hook = "get_grpc_services" -> 5
    [] hook = "start" -> 6
    [] OTHER -> 8

\* m depends (directly or not) on a module of S: deps closure, k rounds
RECURSIVE DepsClosure(_, _, _)
DepsClosure(b, S, k) ==
  IF k = 0 THEN S
  ELSE DepsClosure(b, S \cup UNION { Range(b.deps[n]) : n \in S \cap DOMAIN b.deps }, k - 1)

DirectDeps(b, n) == IF n \in DOMAIN b.deps THEN Range(b.deps[n]) ELSE {}

\* n lies on a cycle of the declared dependency graph
OnCycle(b, n) == n \in DepsClosure(b, DirectDeps(b, n), Cardinality(Names))

HasCycle(b) == \E n \in DOMAIN b.core : OnCycle(b, n)

\* path = [n1, ..., nk, n1]: n1..nk distinct, and each node is a declared
\* dependency of the next one
IsClosedCycle(b, path) ==
  /\ Len(path) >= 2
  /\ path[1] = path[Len(path)]
  /\ \A i \in 1..(Len(path) - 1) : \A j \in 1..(Len(path) - 1) : i # j => path[i] # path[j]
  /\ \A i \in 1..(Len(path) - 1) : path[i] \in DirectDeps(b, path[i + 1])
  /\ \A i \in 1..Len(path) : OnCycle(b, path[i])

\* the checks build_topo_sorted makes before it looks for cycles all pass
ValidatedBeforeCycleCheck(b) ==
  /\ b.errors = <<>>
  /\ b.rest_host \in DOMAIN b.core \cup {NoName}
  /\ UnknownCapability(b) = {}
  /\ \A n \in DOMAIN b.deps : Range(b.deps[n]) \subseteq DOMAIN b.core

(* -------------------------------- claims ------------------------------- *)

\* C1: in every registry build_topo_sorted accepts, each declared dependency
\* d of a module m stands strictly before m in the emitted order, and every
\* registered module is emitted exactly once.
C1_TopoSound ==
  (Built /\ registry.ok) =>
    /\ \A i \in 1..Len(registry.modules) :
         \A d \in Range(registry.modules[i].deps) :
           \E j \in 1..(i - 1) : registry.modules[j].name = d
    /\ Range(ModuleNames) = DOMAIN builder.core
    /\ Len(ModuleNames) = Cardinality(DOMAIN builder.core)

\* an accepted registry of three modules, one of which has two dependencies
C1_Witness ==
  /\ Built /\ registry.ok
  /\ Len(registry.modules) = 3
  /\ \E i \in 1..3 : Len(registry.modules[i].deps) = 2

\* C2 as stated: whenever the declared dependency graph has a cycle, the
\* build fails with CycleDetected and a path that is one closed cycle.
C2_Original ==
  (Built /\ HasCycle(builder)) =>
    /\ ~registry.ok
    /\ err.kind = "CycleDetected"
    /\ IsClosedCycle(builder, err.detail)

\* C2 amended: when the registrations pass the checks that precede cycle
\* detection (no collected error, every capability and every dependency
\* names a registered module) and the dependency graph has a cycle, the
\* build fails with CycleDetected whose path lists the nodes of one cycle
\* once each and closes on its first node; conversely CycleDetected is
\* reported only for a graph with a cycle.
C2_CyclePath ==
  /\ (Built /\ HasCycle(builder) /\ ValidatedBeforeCycleCheck(builder)) =>
       /\ ~registry.ok
       /\ err.kind = "CycleDetected"
       /\ IsClosedCycle(builder, err.detail)
  /\ (Built /\ err.kind = "CycleDetected") => HasCycle(builder)

\* a two-node cycle reported while a third registered module is on no cycle
C2_Witness ==
  /\ Built /\ err.kind = "CycleDetected"
  /\ Len(err.detail) = 3
  /\ Cardinality(DOMAIN builder.core) = 3
  /\ \E n \in DOMAIN builder.core : n \notin Range(err.detail) /\ DirectDeps(builder, n) # {}

SystemFirst(calls) ==
  \A i \in 1..Len(calls) : \A j \in 1..Len(calls) :
    i < j =>
      /\ ~(~EntryByName(calls[i]).is_system /\ EntryByName(calls[j]).is_system)
      /\ (EntryByName(calls[i]).is_system = EntryByName(calls[j]).is_system)
           => TopoPos(calls[i]) < TopoPos(calls[j])

\* C4: in the DB-migrate, init and start phases every hook of a system
\* module is invoked before any hook of a non-system module, and inside the
\* system group and the non-system group the hooks follow the topo order.
C4_SystemFirst ==
  /\ SystemFirst(CallsOf("migrate"))
  /\ SystemFirst(CallsOf("init"))
  /\ SystemFirst(CallsOf("start"))

\* three modules migrated and started, system and non-system ones among
\* them, one of the non-system ones ahead of a system one in topo order
C4_Witness ==
  /\ Len(CallsOf("migrate")) = 3
  /\ Len(CallsOf("start")) = 3
  /\ \E i \in 1..3 : \E j \in 1..3 :
       /\ i < j
       /\ ~registry.modules[i].is_system
       /\ registry.modules[j].is_system

\* the hook `hook` of A has returned before position p of the log
ReturnedBefore(hook, A, p) ==
  \E q \in 1..(p - 1) : log[q].hook = hook /\ log[q].module = A /\ IsReturn(log[q])

\* C5: whenever A stands before B in the emitted topo order, A's init has
\* returned before B's init is invoked, and (both being stateful) A's start
\* has returned before B's start is invoked, whatever their system flags.
C5_TopoOrderInitStart ==
  \A p \in 1..Len(log) :
    (log[p].ev = "call" /\ log[p].hook \in {"init", "start"}) =>
      \A i \in 1..(TopoPos(log[p].module) - 1) :
        (log[p].hook = "start" => registry.modules[i].stateful)
          => ReturnedBefore(log[p].hook, registry.modules[i].name, p)

\* C6: in a completed run the stop invocations are the start invocations of
\* the start phase in reverse.
C6_StopReversesStart ==
  pc = "done" => CallsOf("stop") = Reverse(CallsOf("start"))

\* C7: a failing stop hook does not end the stop phase: no error is recorded
\* for it, and a run that reaches the end has invoked stop on every stateful
\* module, once each, and returns Ok.
C7_StopErrorsIgnored ==
  /\ (\E i \in 1..Len(log) : log[i].hook = "stop" /\ log[i].ev = "err")
       => (pc \in {"stop", "done"} /\ err = NoErr)
  /\ pc = "stop" => err = NoErr
  /\ pc = "done" =>
       /\ err = NoErr
       /\ CallsOf("stop") =
            LET r == stop_order(registry)
                st == SelectSeq(r, LAMBDA e : e.stateful)
            IN [i \in 1..Len(st) |-> st[i].name]

\* a completed run in which a stop failed and a later stop was still invoked
C7_Witness ==
  /\ pc = "done"
  /\ \E i \in 1..Len(log) : \E j \in 1..Len(log) :
       /\ i < j
       /\ log[i].hook = "stop" /\ log[i].ev = "err"
       /\ log[j].hook = "stop" /\ log[j].ev = "call"

\* the RegistryError kind each startup hook's failure is wrapped in
KindOf(hook) ==
  CASE hook = "migrate" -> "DbMigrate"
    [] hook = "init" -> "Init"
    [] hook = "rest_prepare" -> "RestPrepare"
    [] hook = "register_rest" -> "RestRegister"
    [] hook = "rest_finalize" -> "RestFinalize"
    [] hook = "get_grpc_services" -> "GrpcRegister"
    [] hook = "start" -> "Start"
    [] OTHER -> "none"

\* C8: a hook that fails in a startup phase is the last thing the run does:
\* the failure is the last event of the log, nothing is in flight, and the
\* run has returned the phase error naming that module.
C8_FailFast ==
  \A i \in 1..Len(log) :
    (log[i].ev = "err" /\ log[i].hook # "stop") =>
      /\ i = Len(log)
      /\ inflight = {}
      /\ pc = "failed"
      /\ err.kind = KindOf(log[i].hook)
      /\ err.module = log[i].module

\* a start hook failed after the start hook of another module had succeeded
C8_Witness ==
  /\ pc = "failed" /\ err.kind = "Start"
  /\ \E i \in 1..Len(log) : log[i].hook = "start" /\ log[i].ev = "ok"
  /\ CallsOf("stop") = <<>>

\* the accepted registry has a rest module and no rest host
MissingRestHost == registry.ok /\ RestSet # {} /\ Hosts = {}

\* the accepted registry has a grpc service module and no grpc hub
MissingGrpcHub == registry.ok /\ registry.grpc_services # <<>> /\ registry.grpc_hub = NoName

\* C9 as stated: no accepted registry has a rest module without a rest host
\* or a grpc service module without a grpc hub.
C9_Original == Built => (~MissingRestHost /\ ~MissingGrpcHub)

\* C9 amended: build_topo_sorted accepts such registrations; the run fails
\* later, in run_rest_phase with RestRequiresHost (in run_grpc_phase with
\* GrpcRequiresHub), once every init hook has returned, so that the run
\* never gets past that phase and no start or stop hook is invoked.
C9_MissingHostFailsInPhase ==
  /\ MissingRestHost => pc \in {"wire", "db", "init", "rest", "failed"}
  /\ MissingGrpcHub => pc \in {"wire", "db", "init", "rest", "rest_prepare",
                                "rest_register", "rest_finalize", "grpc", "failed"}
  /\ (MissingRestHost \/ MissingGrpcHub) => CallsOf("start") = <<>> /\ CallsOf("stop") = <<>>
  /\ (MissingRestHost /\ pc = "failed" /\ Len(CallsOf("init")) = Len(registry.modules)
        /\ log[Len(log)].ev = "ok")
       => err.kind = "RestRequiresHost"
  /\ err.kind \in {"RestRequiresHost", "GrpcRequiresHub"} =>
       /\ registry.ok
       /\ \A i \in 1..Len(registry.modules) :
            \E q \in 1..Len(log) :
              log[q] = Event("init", registry.modules[i].name, "ok")
  /\ err.kind = "RestRequiresHost" => MissingRestHost
  /\ err.kind = "GrpcRequiresHub" => MissingGrpcHub

\* the run failed with RestRequiresHost after a migration hook had run
C9_Witness ==
  /\ pc = "failed" /\ err.kind = "RestRequiresHost"
  /\ \E q \in 1..Len(log) : log[q].hook = "migrate" /\ log[q].ev = "ok"

\* registered modules whose type declares capability cap
Declaring(cap) ==
  { n \in DOMAIN builder.core : cap \in ModuleTypes[builder.core[n].type].caps }

\* C10 as stated: two rest hosts make the build fail with MultipleRestHosts,
\* two grpc hubs with MultipleGrpcHubs, and no hook runs.
C10_Original ==
  /\ (Built /\ Cardinality(Declaring("rest_host")) >= 2) =>
       (pc = "failed" /\ err.kind = "MultipleRestHosts" /\ log = <<>>)
  /\ (Built /\ Cardinality(Declaring("grpc_hub")) >= 2) =>
       (pc = "failed" /\ err.kind = "MultipleGrpcHubs" /\ log = <<>>)

\* C10 amended: when two modules registered by macro-generated registrators
\* declare rest_host (or grpc_hub), the build fails with
\* InvalidRegistryConfiguration, whose messages include the one recorded
\* when a declaring module found the host (hub) slot taken by another
\* module, and no hook of any module runs.
C10_TwoHostsRejected ==
  /\ (Built /\ Cardinality(Declaring("rest_host")) >= 2) =>
       /\ pc = "failed" /\ ~registry.ok /\ log = <<>>
       /\ err.kind = "InvalidRegistryConfiguration"
       /\ \E k \in 1..Len(err.detail) :
            /\ err.detail[k][1] = "multiple rest hosts"
            /\ err.detail[k][2] = builder.rest_host
            /\ err.detail[k][3] \in Declaring("rest_host")
            /\ err.detail[k][2] # err.detail[k][3]
  /\ (Built /\ Cardinality(Declaring("grpc_hub")) >= 2) =>
       /\ pc = "failed" /\ ~registry.ok /\ log = <<>>
       /\ err.kind = "InvalidRegistryConfiguration"
       /\ \E k \in 1..Len(err.detail) :
            /\ err.detail[k][1] = "multiple grpc hubs"
            /\ err.detail[k][2] = builder.grpc_hub
            /\ err.detail[k][3] \in Declaring("grpc_hub")
            /\ err.detail[k][2] # err.detail[k][3]

\* the build was rejected for a registry with two rest hosts
C10_Witness ==
  /\ pc = "failed"
  /\ Cardinality(Declaring("rest_host")) = 2
  /\ err.kind = "InvalidRegistryConfiguration"

\* invocations of the REST phase hooks, in order, as <<hook, module>>
RestCalls ==
  LET c == SelectSeq(log, LAMBDA e :
             e.ev = "call" /\ e.hook \in {"rest_prepare", "register_rest", "rest_finalize"})
  IN [i \in 1..Len(c) |-> <<c[i].hook, c[i].module>>]

\* what a complete REST phase invokes: prepare on the host, register_rest on
\* the rest modules in registry order, finalize on the host
RestPlan ==
  LET r == SelectSeq(registry.modules, LAMBDA e : e.rest)
  IN << <<"rest_prepare", HostEntry.name>> >>
       \o [i \in 1..Len(r) |-> <<"register_rest", r[i].name>>]
       \o << <<"rest_finalize", HostEntry.name>> >>

IsPrefix(s, t) == Len(s) <= Len(t) /\ SubSeq(t, 1, Len(s)) = s

PastRest == pc \in {"grpc", "start", "wait", "stop", "done"}

\* C11: with exactly one rest host the REST hooks invoked so far are a prefix
\* of: rest_prepare on the host, register_rest on every rest module in
\* registry order, rest_finalize on the host; a run that got past the phase
\* has invoked all of them, once each.  With no rest host and no rest module
\* no REST hook is invoked and the phase reports no error.
C11_RestPhaseSequence ==
  /\ (registry.ok /\ Cardinality(Hosts) = 1) =>
       /\ IsPrefix(RestCalls, RestPlan)
       /\ PastRest => RestCalls = RestPlan
  /\ (registry.ok /\ Hosts = {} /\ RestSet = {}) =>
       /\ RestCalls = <<>>
       /\ err.kind \notin {"RestRequiresHost", "MultipleRestHosts", "RestPrepare",
                           "RestRegister", "RestFinalize"}

\* the REST phase is over for a host and two further rest modules
C11_Witness ==
  /\ pc = "grpc"
  /\ Cardinality(Hosts) = 1
  /\ Len(RestCalls) = 5
  /\ RestCalls[5][1] = "rest_finalize"

\* the concatenation of a sequence of installer lists
RECURSIVE Flatten(_)
Flatten(ls) == IF ls = <<>> THEN <<>> ELSE Head(ls) \o Flatten(Tail(ls))

\* two installers of the list share a service name
HasDuplicate(l) == \E i \in 1..Len(l) : \E j \in 1..Len(l) : i # j /\ l[i] = l[j]

\* run_grpc_phase has returned Ok(()) for a registry with a hub
GrpcPhaseDone == registry.ok /\ registry.grpc_hub # NoName /\ pc \in {"start", "wait", "stop", "done"}

\* C12: when the installers the grpc modules returned share a service name,
\* run_grpc_phase has failed with GrpcRegister and nothing was put into the
\* installer store; when the phase succeeded, the store received exactly the
\* installers returned by all grpc modules, in collection order (it holds
\* them until the hub takes them); and an invocation of run_with_installers
\* whose list has a duplicate service name ends in an error without having
\* notified readiness or bound a listener.
C12_DuplicateServices ==
  /\ HasDuplicate(Flatten(collected)) =>
       /\ pc = "failed" /\ err.kind = "GrpcRegister"
       /\ store = <<>> /\ takes = 0
  /\ GrpcPhaseDone =>
       /\ ~HasDuplicate(Flatten(collected))
       /\ Len(collected) = Len(registry.grpc_services)
       /\ takes = 0 => store = Flatten(collected)
       /\ \A t \in 1..MaxServes :
            serve_tasks[t].take_no = 1 => serve_tasks[t].installers = Flatten(collected)
  /\ \A t \in 1..MaxServes :
       HasDuplicate(serve_tasks[t].installers) =>
         /\ serve_tasks[t].pc \in {"check", "err"}
         /\ ~serve_tasks[t].ready /\ ~serve_tasks[t].bound

\* the second of two grpc modules returned a service name the first had
\* returned, and the phase failed
C12_Witness ==
  /\ pc = "failed" /\ err.kind = "GrpcRegister"
  /\ Len(collected) = 2
  /\ HasDuplicate(Flatten(collected))
  /\ store = <<>>

\* C13: the first take returns everything the registration phase has set
\* and leaves the store empty, and an invocation of serve that is not the
\* first one to take from the store fails: it never notifies readiness,
\* waits for cancellation or returns Ok.
C13_SecondUseFails ==
  /\ takes >= 1 => store = <<>>
  /\ \A t \in 1..MaxServes :
       /\ serve_tasks[t].take_no = 1 => serve_tasks[t].installers = Flatten(collected)
       /\ serve_tasks[t].take_no >= 2 =>
            /\ serve_tasks[t].pc \in {"check", "err"}
            /\ ~serve_tasks[t].ready

\* C14: an invocation of run_with_installers has notified readiness only
\* if it has bound its listener.
C14_ReadyAfterBind ==
  \A t \in 1..MaxServes : serve_tasks[t].ready => serve_tasks[t].bound

(* ------------------- observations on the directory -------------------- *)

\* the instances as they were before the last call, as <<module, instance>>
RecordsBefore ==
  last_call.removed
    \cup { c[1] : c \in last_call.changed }
    \cup { p \in Records(inner) : p \notin last_call.added
                                   /\ ~\E c \in last_call.changed : c[2] = p }

\* the record that now has the identity of p, as a set (empty when gone)
Now(p) == { q \in Records(inner) : SameIdentity(p, q) }

\* evict_stale has just swept the buckets
Swept == last_call.op = "evict_stale"

\* C15: after a call evict_stale(now), an instance that was Healthy with
\* age = now - last_heartbeat is unchanged if age < ttl, is present in state
\* Quarantined if ttl <= age < ttl + grace, and is gone from the directory
\* if age >= ttl + grace.
C15_EvictStaleByAge ==
  Swept =>
    \A p \in RecordsBefore :
      p[2].state = "Healthy" =>
        LET age == Age(last_call.at, p[2]) IN
        /\ age < hb_ttl => Now(p) = {p}
        /\ (hb_ttl <= age /\ age < hb_ttl + hb_grace) =>
             \E q \in Now(p) : q[2].state = "Quarantined"
        /\ age >= hb_ttl + hb_grace => Now(p) = {}

\* the instance update_heartbeat was last called for, before and after
HeartbeatPairs ==
  { c \in last_call.changed : c[1][1] = last_call.module
                                /\ c[1][2].instance_id = last_call.id }

\* C16: a call update_heartbeat(module, id, at) for an instance of the
\* directory leaves at as its last heartbeat, makes a Registered instance
\* Healthy and leaves every other state as it was, so that a Quarantined
\* instance stays Quarantined and unselectable; nothing else changes.
C16_HeartbeatState ==
  last_call.op = "update_heartbeat" =>
    /\ last_call.removed = {} /\ last_call.added = {}
    /\ last_call.changed \subseteq HeartbeatPairs
    /\ \A q \in Records(inner) :
         (q[1] = last_call.module /\ q[2].instance_id = last_call.id) =>
           q[2].last_heartbeat = last_call.at
    /\ \A c \in HeartbeatPairs :
         /\ c[2][2].last_heartbeat = last_call.at
         /\ c[2][2].state = (IF c[1][2].state = "Registered" THEN "Healthy" ELSE c[1][2].state)
         /\ c[2][2] = [c[1][2] EXCEPT !.last_heartbeat = c[2][2].last_heartbeat,
                                      !.state = c[2][2].state]

\* a heartbeat arrived at a later instant for a Quarantined instance, which
\* is still Quarantined
C16_Witness ==
  /\ last_call.op = "update_heartbeat"
  /\ \E c \in HeartbeatPairs :
       /\ c[1][2].state = "Quarantined" /\ c[2][2].state = "Quarantined"
       /\ c[2][2].last_heartbeat > c[1][2].last_heartbeat
       /\ ~Selectable(c[2][2])

\* the selectable candidates of a key, as <<module, instance_id>>
SelectableFor(kind, key) ==
  IF kind = "instance"
    THEN { <<key, i.instance_id>> : i \in { j \in Range(instances_of(inner, key)) : Selectable(j) } }
    ELSE { <<c[1], c[2].instance_id>> : c \in Range(ServiceCandidates(inner, iter_order, key)) }

\* how often candidate c was returned by the recorded picks a..b
Returned(c, a, b) ==
  Cardinality({ n \in a..b : picks[n].module = c[1] /\ picks[n].id = c[2] })

\* C17: over any consecutive picks for one key, made while the directory
\* (and so the key's set of selectable candidates) stays as it is and the
\* key has two or more selectable candidates, the numbers of times any two
\* candidates are returned differ by at most 1, whatever picks are made in
\* between for other keys.
C17_RoundRobinFair ==
  picks # <<>> =>
    LET candidates == SelectableFor(picks[1].kind, picks[1].key) IN
    Cardinality(candidates) >= 2 =>
      \A a \in 1..Len(picks) : \A b \in a..Len(picks) :
        \A c \in candidates : \A d \in candidates :
          Returned(c, a, b) - Returned(d, a, b) <= 1

\* C18: while a key (a module for pick_instance_round_robin, a service for
\* pick_service_round_robin) has a Healthy or Ready candidate, every pick
\* for it returns a Healthy or Ready candidate of that key.
C18_PicksSelectable ==
  \A n \in 1..Len(picks) :
    (picks[n].id # NoName /\ SelectableFor(picks[n].kind, picks[n].key) # {}) =>
      /\ <<picks[n].module, picks[n].id>> \in SelectableFor(picks[n].kind, picks[n].key)
      /\ \A i \in Range(instances_of(inner, picks[n].module)) :
           i.instance_id = picks[n].id => Selectable(i)

\* a module has a quarantined instance next to a selectable one, and two
\* picks in a row for the module have returned the selectable one
C18_Witness ==
  /\ Len(picks) = 2
  /\ picks[1].kind = "instance"
  /\ \E i \in Range(instances_of(inner, picks[1].key)) : i.state = "Quarantined"
  /\ \E i \in Range(instances_of(inner, picks[1].key)) :
       /\ Selectable(i)
       /\ picks[1].id = i.instance_id /\ picks[2].id = i.instance_id

\* C19: each bucket holds at most one instance per instance_id, and the
\* instance stored for (module, instance_id) is the one registered last
\* under that identity.
C19_RegisterReplaces ==
  /\ \A m \in DOMAIN inner :
       \A j \in 1..Len(inner[m]) : \A k \in 1..Len(inner[m]) :
         inner[m][j].instance_id = inner[m][k].instance_id => j = k
  /\ \A p \in Records(inner) :
       /\ <<p[1], p[2].instance_id>> \in DOMAIN latest
       /\ p[2].version = latest[<<p[1], p[2].instance_id>>]
  /\ last_call.op = "register_instance" =>
       /\ last_call.removed = {}
       /\ Cardinality(last_call.added) + Cardinality(last_call.changed) <= 1
       /\ \A c \in last_call.changed :
            c[1][1] = last_call.module /\ c[1][2].instance_id = last_call.id
       /\ \A q \in last_call.added :
            q[1] = last_call.module /\ q[2].instance_id = last_call.id

\* the first of two instances of a bucket was registered again with another
\* version and replaced the stored one in place
C19_Witness ==
  /\ last_call.op = "register_instance"
  /\ \E c \in last_call.changed :
       /\ c[1][2].version # c[2][2].version
       /\ Len(inner[c[2][1]]) = 2
       /\ inner[c[2][1]][1] = c[2][2]

\* the identity the last call named
Named(p) == p[1] = last_call.module /\ p[2].instance_id = last_call.id

\* C20: deregister(module, id) removes the instance with that identity and
\* nothing else: every other instance, and every other module's bucket and
\* counter, is as before; and when the module is left without instances its
\* bucket and its round-robin counter are removed.
C20_DeregisterFrame ==
  /\ last_call.op \in {"deregister", "deregister_remove"} =>
       /\ \A p \in last_call.removed : Named(p)
       /\ last_call.added = {} /\ last_call.changed = {}
       /\ last_call.rr_removed \subseteq {last_call.module}
       /\ last_call.rr_changed = {}
       /\ \A q \in Records(inner) : ~Named(q)
  /\ last_call.op = "deregister" =>
       /\ last_call.rr_removed = {}
       /\ empty_modules = NoPending =>
            (last_call.module \in DOMAIN inner => inner[last_call.module] # <<>>)
  /\ last_call.op = "deregister_remove" =>
       /\ last_call.module \notin DOMAIN inner
       /\ last_call.module \notin DOMAIN rr_counters

\* C21: update_heartbeat and evict_stale (its sweep and its removal of the
\* buckets the sweep emptied) leave a Draining instance in the directory and
\* in state Draining, whatever its heartbeat age; the sweep leaves it
\* untouched.
C21_DrainingKept ==
  /\ last_call.op \in {"update_heartbeat", "evict_stale", "evict_stale_remove"} =>
       \A p \in RecordsBefore :
         p[2].state = "Draining" => \E q \in Now(p) : q[2].state = "Draining"
  /\ Swept =>
       \A p \in RecordsBefore : p[2].state = "Draining" => Now(p) = {p}

\* registrations i and j name the same handler or the same route
Sharing(i, j) ==
  LET a == ingress.registrations[i]
      b == ingress.registrations[j]
  IN a.handler_id = b.handler_id \/ (a.method = b.method /\ a.path = b.path)

\* the routes of the router that registration n added
RoutesOf(n) == { k \in 1..Len(ingress.routes) : ingress.routes[k].no = n }

\* the stored OpenAPI operations that registration n added
StoredOf(n) == { k \in DOMAIN ingress.operation_specs : ingress.operation_specs[k].no = n }

\* C22: of two operations registered through OperationBuilder::register
\* that share handler_id or (method, path), the first has one route in the
\* router and one stored OpenAPI operation, and the second has added no
\* route and no stored operation.
C22_FirstRegistrationWins ==
  \A i \in 1..Len(ingress.registrations) : \A j \in 1..Len(ingress.registrations) :
    (i < j /\ Sharing(i, j) /\ ~\E h \in 1..(i - 1) : Sharing(h, i)) =>
      /\ Cardinality(RoutesOf(ingress.registrations[i].no)) = 1
      /\ Cardinality(StoredOf(ingress.registrations[i].no)) = 1
      /\ RoutesOf(ingress.registrations[j].no) = {}
      /\ StoredOf(ingress.registrations[j].no) = {}

\* C23: every route of the router and every call of register_operation
\* comes from a builder on which a handler was set exactly once and at
\* least one response was declared; a builder lacking either has added no
\* route; and every register call that has returned has added exactly one
\* route and made exactly one register_operation call.
C23_RegisterNeedsHandlerAndResponse ==
  /\ \A k \in 1..Len(ingress.routes) :
       ingress.routes[k].handlers_set = 1 /\ ingress.routes[k].responses >= 1
  /\ \A k \in 1..Len(ingress.registrations) :
       ingress.registrations[k].handlers_set = 1 /\ ingress.registrations[k].responses >= 1
  /\ operation.stage = "building" => RoutesOf(operation.no) = {}
  /\ ~ingress.panicked =>
       /\ Len(ingress.routes) = Len(ingress.registrations)
       /\ \A k \in 1..Len(ingress.registrations) :
            Cardinality(RoutesOf(ingress.registrations[k].no)) = 1
  /\ Cardinality({ ingress.registrations[k].no : k \in 1..Len(ingress.registrations) })
       = Len(ingress.registrations)

\* one builder was dropped unsealed and another, sealed, was registered
C23_Witness ==
  /\ ingress.built = 2
  /\ Len(ingress.registrations) = 1
  /\ Len(ingress.routes) = 1
  /\ ingress.routes[1].responses = 2
  /\ operation = NoOp

\* the middleware order the host declares, outermost first
DeclaredOrder ==
  << "propagate_request_id", "set_request_id", "trace",
     "push_req_id_to_extensions", "timeout", "body_limit", "cors",
     "mime_validation", "rate_limit", "error_mapping", "auth" >>

\* C24: the layers a request has entered are, in order, the leading layers
\* of the declared order (without CORS when it is disabled); and a
\* preflight request that CORS has seen was not seen by MIME validation,
\* rate limiting or authentication before.
C24_MiddlewareOrder ==
  /\ \E present \in { DeclaredOrder, SelectSeq(DeclaredOrder, LAMBDA l : l # "cors") } :
       IsPrefix(request.seen, present)
  /\ \A k \in 1..Len(request.seen) :
       (request.kind = "preflight" /\ request.seen[k] = "cors") =>
         \A j \in 1..(k - 1) :
           request.seen[j] \notin {"mime_validation", "rate_limit", "auth"}

\* C25: the bucket never holds more than burst tokens, at most burst
\* requests pass the bucket at one instant, only a request that passed the
\* bucket reaches the handler, and the bucket refills at rps per second.
C25_BucketWithinBurst ==
  limiter.made =>
    /\ limiter.bucket.tokens <= limiter.burst * TicksPerSec
    /\ limiter.admitted <= limiter.burst
    /\ limiter.handled <= limiter.admitted
    /\ limiter.bucket.refill_per_sec = limiter.rps

\* the trigger has occurred after startup
TriggeredAfterStartup == shutdown.fired /\ pc = "wait"

\* C26: in Token mode the runtime's token is the external token; in each
\* mode a trigger after startup leads to a cancelled token, to the stop
\* phase and to the return of run.
C26_TriggerLeadsToReturn ==
  /\ [](shutdown.mode = "Token" => (cancel <=> shutdown.fired))
  /\ (TriggeredAfterStartup ~> cancel)
  /\ (TriggeredAfterStartup ~> (pc = "stop"))
  /\ (TriggeredAfterStartup ~> (pc = "done"))

\* the stateful modules of the registry
StatefulNames ==
  { registry.modules[i].name : i \in StopSet }

\* C27: no stop takes longer than the stop-timeout, and the stop phase
\* takes no longer than the sum of the stop-timeouts.
C27_StopWithinTimeouts ==
  shutdown.mode \in Modes =>
    /\ \A m \in Names : shutdown.spent[m] <= StopTimeout
    /\ shutdown.spent["a"] + shutdown.spent["b"] + shutdown.spent["c"]
         <= Cardinality(StatefulNames) * StopTimeout

\* the names of S in registration order: a new module takes the next
\* unused name (Canonical), so that names are first registered in the order
\* of NameRank
InsertionOrder(S) ==
  CHOOSE p \in Perms(S) :
    \A i, j \in 1..Cardinality(S) : i < j => NameRank(p[i]) < NameRank(p[j])

\* the order Kahn's algorithm emits when ties are broken by insertion order
StableOrder(b) ==
  LET names == InsertionOrder(DOMAIN b.core)
      order == TopoOrder(names, AdjOf(b, names, InsertionOrder(DOMAIN b.deps)))
  IN [i \in 1..Len(order) |-> names[order[i]]]

\* C28: the emitted topo order is the one Kahn's algorithm yields with ties
\* broken by registration order, whatever order the maps are iterated in.
C28_TopoFollowsInsertion ==
  registry.ok =>
    [i \in 1..Len(registry.modules) |-> registry.modules[i].name] = StableOrder(builder)

\* listen_addr is a named-pipe address / a UDS address
IsPipeAddr(v) ==
  v.kind = "string" /\ (starts_with(v.s, "pipe://") \/ starts_with(v.s, "npipe://"))
IsUdsAddr(v) == v.kind = "string" /\ starts_with(v.s, "uds://")

\* the value init was given is one the platform does not support
Unsupported ==
  \/ IsPipeAddr(hub_cfg.value) /\ hub_cfg.platform # "windows"
  \/ IsUdsAddr(hub_cfg.value) /\ hub_cfg.platform # "unix"

\* C29: init returns an error for a named-pipe address off Windows and for
\* a UDS address off Unix, accepts another string only when it parses as a
\* TCP address, and the hub serves nothing after a rejected value.
C29_ListenAddrRejected ==
  (hub_cfg.made /\ hub_cfg.init # "none") =>
    /\ Unsupported => hub_cfg.init = "err" /\ hub_cfg.serving = NotServing
    /\ ( /\ hub_cfg.value.kind = "string"
         /\ ~IsPipeAddr(hub_cfg.value) /\ ~IsUdsAddr(hub_cfg.value)
         /\ hub_cfg.init # "err" )
         => parse_SocketAddr(hub_cfg.value.s).ok
    /\ hub_cfg.init = "err" => hub_cfg.serving = NotServing

\* the stop_instance call that returned last
Stopped == backend.stopped

\* C30: when stop_instance(h) has returned, it returned Ok, list_instances
\* shows h no more, the map the call left is the map it found without h,
\* no child but the child of h was killed, and a call for an instance that
\* is not tracked changed neither the map nor a child.
C30_StopInstance ==
  (backend.made /\ Stopped # NoStop) =>
    /\ Stopped.stage = "returned Ok"
    /\ Stopped.handle \notin list_instances(Stopped.after, Stopped.handle.module)
    /\ Stopped.handle \notin list_instances(backend.instances, Stopped.handle.module)
    /\ Stopped.after = { inst \in Stopped.before : inst.handle # Stopped.handle }
    /\ Stopped.killed \subseteq {Stopped.handle.instance_id}
    /\ ~Stopped.local => Stopped.after = Stopped.before /\ Stopped.killed = {}

C30_Witness ==
  /\ backend.made /\ Stopped # NoStop
  /\ Stopped.local
  /\ Stopped.handle \in list_instances(Stopped.before, Stopped.handle.module)
  /\ backend.instances # {}

\* the sweep of evict_stale at time t removes instance i
Stale(t, i) == i.state = "Quarantined" /\ Age(t, i) >= hb_ttl + hb_grace

\* C31: a deregister call, in both of its lock scopes, removes no instance
\* but the one it names, and an evict_stale call, in its sweep and in its
\* removal of the emptied buckets, removes no instance that is not stale.
C31_MutationsAtomic ==
  /\ last_call.op \in {"deregister", "deregister_remove"} =>
       \A p \in last_call.removed : Named(p)
  /\ last_call.op \in {"evict_stale", "evict_stale_remove"} =>
       \A p \in last_call.removed : Stale(last_call.at, p[2])

\* the set calls on the store that succeeded, by position in the log
SetsOk ==
  { k \in 1..Len(log) : log[k].hook = "set" /\ log[k].ev = "ok" }

\* C32: over the set and take calls made on one store, at most one set
\* call has succeeded.
C32_SetOnce == Cardinality(SetsOk) <= 1

SystemModules ==
  { registry.modules[i].name : i \in { j \in 1..Len(registry.modules) :
      registry.modules[j].is_system /\ registry.modules[j].core.sysmod } }

WireCalls(n) ==
  Len(SelectSeq(log, LAMBDA e : e.hook = "wire_system" /\ e.module = n /\ e.ev = "call"))

\* C34: wire_system is invoked exactly once, before any migrate or init hook,
\* on every module flagged system that exposes the system-module hook and on
\* no other module; no other hook of any module is handed the SystemContext.
C34_WireSystemOnce ==
  /\ \A i \in 1..Len(log) :
        /\ log[i].hook = "wire_system" => log[i].module \in SystemModules
        /\ ContextOf(log[i].hook) = "SystemContext" <=> log[i].hook = "wire_system"
        /\ log[i].hook \in {"migrate", "init"} =>
             /\ \A j \in 1..Len(log) : log[j].hook = "wire_system" => j < i
             /\ \A n \in SystemModules : WireCalls(n) = 1
  /\ \A n \in SystemModules : WireCalls(n) <= 1
  /\ pc \notin {"discover", "wire", "failed"} => \A n \in SystemModules : WireCalls(n) = 1

\* a run in which a system module with the hook was wired, a system module
\* without the hook and a non-system module were not, and init hooks ran
C34_Witness ==
  /\ \E n \in SystemModules : WireCalls(n) = 1
  /\ \E i \in 1..Len(registry.modules) :
        registry.modules[i].is_system /\ ~registry.modules[i].core.sysmod
  /\ \E i \in 1..Len(registry.modules) : ~registry.modules[i].is_system
  /\ \E i \in 1..Len(log) : log[i].hook = "init" /\ log[i].ev = "ok"

(* ------------------------------- C35 ----------------------------------- *)

Served == rest_serve.pc # "idle"

\* C35: serve has signalled ready only if it has obtained the router and
\* bound the listener; the gated start has returned Ok only if the listener
\* was bound; with an invalid address or a failed bind ready is never
\* signalled and serve returns the error.
C35_ReadyAfterBind ==
  Served =>
    /\ rest_serve.ready =>
         /\ rest_serve.router # "none"
         /\ rest_serve.listener # "none"
         /\ parse_SocketAddr(rest_serve.bind_addr).ok
    /\ rest_serve.pc = "notify" => rest_serve.listener = "bound"
    /\ rest_serve.start = "ok" => rest_serve.ready /\ rest_serve.listener # "none"
    /\ ~parse_SocketAddr(rest_serve.bind_addr).ok =>
         /\ ~rest_serve.ready
         /\ rest_serve.pc \in {"parse", "returned"}
         /\ rest_serve.pc = "returned" => rest_serve.result = "err"
    /\ rest_serve.failed_at \in {"parse", "router", "bind"} =>
         /\ ~rest_serve.ready
         /\ rest_serve.pc = "returned" /\ rest_serve.result = "err"
         /\ rest_serve.start # "ok"

\* a serve that bound and notified and whose start returned Ok
C35_Witness ==
  /\ Served /\ rest_serve.ready /\ rest_serve.start = "ok"
  /\ rest_serve.listener = "bound" /\ rest_serve.router = "final"

\* a serve whose bind failed
C35_WitnessBindFails ==
  /\ Served /\ rest_serve.failed_at = "bind" /\ rest_serve.start = "err"

(* ------------------------------- C36 ----------------------------------- *)

\* the module of the recorded picks has instances and none is selectable
NoneSelectable(m) ==
  /\ instances_of(inner, m) # <<>>
  /\ SelectSeq(instances_of(inner, m), Selectable) = <<>>

\* C36: pick_instance_round_robin returns None only for a module without
\* instances; for a module with instances of which none is Healthy or Ready
\* it returns an instance of the module, and consecutive picks go through
\* the module's instances in their order, wrapping around.
C36_FallbackToAll ==
  \A n \in 1..Len(picks) : picks[n].kind = "instance" =>
    LET instances == instances_of(inner, picks[n].key) IN
    /\ picks[n].id = NoName <=> instances = <<>>
    /\ NoneSelectable(picks[n].key) =>
         /\ IdPosition(instances, picks[n].id) # 0
         /\ n < Len(picks) =>
              IdPosition(instances, picks[n + 1].id)
                = (IdPosition(instances, picks[n].id) % Len(instances)) + 1

\* two instances, one Registered and one Quarantined, and two picks in a
\* row that returned the one and then the other
C36_Witness ==
  /\ Len(picks) >= 2 /\ picks[1].kind = "instance"
  /\ NoneSelectable(picks[1].key)
  /\ \E i \in Range(instances_of(inner, picks[1].key)) : i.state = "Quarantined"
  /\ \E i \in Range(instances_of(inner, picks[1].key)) : i.state = "Registered"
  /\ picks[1].id # picks[2].id

(* ------------------------------- C37 ----------------------------------- *)

\* registration k was dropped: no stored operation comes from it
Dropped(k) == StoredOf(ingress.registrations[k].no) = {}

\* C37: a registration is dropped if and only if an earlier registration
\* that was stored has the same handler_id or the same (method, path), so a
\* dropped registration never makes a later one be dropped; the stored
\* operations have pairwise distinct handler_ids and (method, path).
C37_DroppedIffConflict ==
  /\ \A k \in 1..Len(ingress.registrations) :
       Dropped(k) <=> \E j \in 1..(k - 1) : ~Dropped(j) /\ Sharing(j, k)
  /\ \A a \in DOMAIN ingress.operation_specs : \A b \in DOMAIN ingress.operation_specs :
       a # b =>
         /\ ingress.operation_specs[a].handler_id # ingress.operation_specs[b].handler_id
         /\ << ingress.operation_specs[a].method, ingress.operation_specs[a].path >>
              # << ingress.operation_specs[b].method, ingress.operation_specs[b].path >>

(* ------------------------------- C38 ----------------------------------- *)

\* position of run_full_cycle in its sequence of phases
PcRank(p) ==
  CASE p = "discover" -> 0
    [] p = "wire" -> 1
    [] p = "db" -> 2
    [] p = "init" -> 3
    [] p \in {"rest", "rest_prepare", "rest_register", "rest_finalize"} -> 4
    [] p = "grpc" -> 5
    [] p = "start" -> 6
    [] p = "wait" -> 7
    [] p = "stop" -> 8
    [] OTHER -> 9

\* the token was cancelled before the wait phase
CancelledEarly == shutdown.cancelled_in # "none" /\ PcRank(shutdown.cancelled_in) < 7

\* hook `hook` of every module of S has returned res \in results
HookDone(hook, S, results) ==
  \A n \in S : \E i \in 1..Len(log) :
    log[i].hook = hook /\ log[i].module = n /\ log[i].ev \in results

StatefulNames38 == { registry.modules[i].name : i \in { j \in 1..Len(registry.modules) :
                                                        registry.modules[j].stateful } }

AllNames == { registry.modules[i].name : i \in 1..Len(registry.modules) }

\* the phases behind the position of the run were run in full
PhasesComplete ==
  /\ PcRank(pc) > 1 => HookDone("wire_system", SystemModules, {"ok"})
  /\ PcRank(pc) > 3 => HookDone("init", AllNames, {"ok"})
  /\ PcRank(pc) > 6 => HookDone("start", StatefulNames38, {"ok"})
  /\ pc = "done" => HookDone("stop", StatefulNames38, {"ok", "err"})

\* C38: with the token cancelled before or during the startup phases the
\* run leaves a phase only for the next one (or fails on an error of its
\* own), having run it in full: every system module wired, every module
\* initialised, every stateful module started; in the wait phase it can go
\* on to the stop phase at once, and it ends with every stateful module
\* stopped.
C38_CancelKeepsPhases ==
  /\ []((CancelledEarly /\ pc # "failed") =>
          /\ PhasesComplete
          /\ pc = "wait" => ENABLED wait_cancelled)
  /\ [][(CancelledEarly /\ pc # pc') =>
          (pc' = "failed" \/ PcRank(pc') \in {PcRank(pc), PcRank(pc) + 1})]_vars

\* a run whose token was cancelled before the start phase and which has
\* started and stopped two stateful modules
C38_Witness ==
  /\ pc = "done" /\ shutdown.cancelled_in \in {"discover", "wire", "db", "init"}
  /\ Cardinality(StatefulNames38) = 2
  /\ HookDone("start", StatefulNames38, {"ok"})

(* ------------------------------- C39 ----------------------------------- *)

\* thread t is inside a call
InCall(t) == sync.made /\ sync.prog[t] # <<>>

\* thread t waits for a lock that thread h keeps from it: h holds the lock
\* in a mode that excludes t's, or t wants to read and h is a writer queued
\* on the lock
KeptBy(t, h) ==
  /\ InCall(t)
  /\ Head(sync.prog[t]).do = "acquire"
  /\ LET i == Head(sync.prog[t]) IN
     \/ \E q \in sync.held[i.lock] : q[1] = h /\ (i.mode = "W" \/ q[2] = "W")
     \/ /\ i.mode = "R" /\ h # t /\ InCall(h)
        /\ Head(sync.prog[h]) = Acq(i.lock, "W")
        /\ sync.held[i.lock] # {}

\* every thread of S waits for a lock that a thread of S keeps from it
Deadlocked(S) == S # {} /\ \A t \in S : \E h \in S : KeptBy(t, h)

\* C39: no set of threads inside ModuleManager calls waits on itself, and
\* every call a thread has entered returns.
C39_NoDeadlock ==
  /\ [](sync.made => \A S \in SUBSET LockThreads : ~Deadlocked(S))
  /\ \A t \in LockThreads : InCall(t) ~> ~InCall(t)

\* a pick holds its bucket's shard and waits for the counter shard that
\* another thread holds
C39_Witness ==
  /\ sync.made
  /\ \E t \in LockThreads, h \in LockThreads :
       /\ t # h /\ KeptBy(t, h) /\ Head(sync.prog[t]).lock[1] = "rr_counters"
       /\ \E q \in sync.held[<< "inner", 1 >>] : q[1] = t

(* ------------------------------- C40 ----------------------------------- *)

\* the candidates of a pick of `kind` for `key`, as <<module, instance_id>>
CandidatesOf(kind, key) ==
  IF kind = "instance"
    THEN [k \in 1..Len(InstanceCandidates(inner, key)) |->
            << key, InstanceCandidates(inner, key)[k].instance_id >>]
    ELSE [k \in 1..Len(ServiceCandidates(inner, iter_order, key)) |->
            << ServiceCandidates(inner, iter_order, key)[k][1],
               ServiceCandidates(inner, iter_order, key)[k][2].instance_id >>]

\* the step has written the counter of key k
CounterWritten(k) ==
  /\ k \in DOMAIN rr_counters'
  /\ k \notin DOMAIN rr_counters \/ rr_counters'[k] # rr_counters[k]

\* a pick over n candidates has advanced the counter of key k once, modulo n
AdvancedOnce(k, n) ==
  /\ n > 0
  /\ rr_counters'[k] = (CounterOf(rr_counters, k) + 1) % n
  /\ rr_counters'[k] < n

\* the step is a recorded pick: it returned the candidate at the stored
\* counter modulo the candidate count, and None only without candidates
RecordedPick ==
  LET p == picks'[Len(picks')]
      c == CandidatesOf(p.kind, p.key)
  IN IF c = <<>> THEN p.id = NoName /\ rr_counters' = rr_counters
     ELSE /\ CounterOf(rr_counters, p.key) % Len(c) < Len(c)
          /\ << p.module, p.id >> = c[(CounterOf(rr_counters, p.key) % Len(c)) + 1]
          /\ p.id # NoName
          /\ AdvancedOnce(p.key, Len(c))
          /\ \A k \in DOMAIN rr_counters : k # p.key => rr_counters'[k] = rr_counters[k]

\* C40: every pick over a non-empty candidate list returns the candidate at
\* position (stored counter mod candidate count), whatever count the counter
\* was last used with, and leaves the counter at (counter + 1) mod count,
\* below the count; a step that writes a counter is one such advance.
C40_IndexBelowCount ==
  [][/\ Len(picks') = Len(picks) + 1 => RecordedPick
     /\ \A k \in DOMAIN rr_counters' :
          CounterWritten(k) =>
            \E kind \in {"instance", "service"} :
              AdvancedOnce(k, Len(CandidatesOf(kind, k)))]_vars

\* two picks in a row for a module with two selectable instances returned
\* the same instance: in between, the counter of the key was used by a pick
\* over another number of candidates
C40_Witness ==
  /\ Len(picks) = 2 /\ picks[1].kind = "instance"
  /\ Cardinality(SelectableFor("instance", picks[1].key)) = 2
  /\ picks[1].id # NoName /\ picks[2].id = picks[1].id

====
